---------------------------- MODULE Spec2Model ----------------------------
(***************************************************************************)
(* Tag resolution engine of the repair-cost analytics tool: the text       *)
(* normalizer, the tag dictionary store, the matching cascade              *)
(* (exact -> synonym -> fuzzy), the feedback loop, the batched LLM         *)
(* resolver and the tagging page's handlers.                               *)
(*                                                                         *)
(* Texts are sequences of one-character strings.  Confidences and          *)
(* similarity scores are integers in basis points: 1.0 = 10000,            *)
(* a RapidFuzz score s (0..100) = floor(100 * s).                          *)
(***************************************************************************)
EXTENDS Integers, Sequences, FiniteSets, TLC

VARIABLES
    tag_dictionary,   \* table tag_dictionary: row i has id i
    tag_synonyms,     \* table tag_synonyms, in rowid (insertion) order
    \* process_cases_in_batches (core/llm_client.py)
    pc,               \* "idle", "attempt" (inside _call_with_retry) or "done"
    all_cases,        \* the ids of the cases handed in, in order
    batch_size,       \* the batch_size argument
    batch_i,          \* the loop variable i: 0-based start of the current batch
    all_results,      \* the results collected so far
    progress,         \* the progress callback's calls, <<current, total>> each
    batch_log,        \* per finished batch: how it ended and what it appended
    attempt,          \* _call_with_retry's loop variable
    calls,            \* invocations of func by the running _call_with_retry
    sleeps,           \* the delays it has slept
    retry_log,        \* calls, sleeps and outcome of the last finished _call_with_retry
    \* the tagging page (pages/02_tagging.py) and its tables
    case_tags,            \* table case_tags, a set of rows
    new_tag_candidates,   \* table new_tag_candidates, in rowid order
    tag_edit_history,     \* table tag_edit_history, in rowid order
    run_pc,               \* the auto-tagging handler: "idle" or "running" (LLM calls under way)
    run_untagged,         \* its list `untagged`, read when the script started
    rule_based_cases,     \* the cases process_case_rule_based was evaluated on in the run
    \* the analysis page (pages/04_analysis.py) and core/aggregator.py
    repair_cases,         \* table repair_cases as the aggregator reads it, in row_number order
    matrix_month,         \* the year_month of the last product_tag_matrix call, 0 before any
    matrix_result,        \* what that call returned
    trend_data,           \* the trend_data handed to detect_anomalies
    anomalies_pc,         \* "idle", or "done" once detect_anomalies has returned
    anomalies,            \* what detect_anomalies returned
    uploaded_files,       \* table uploaded_files, in rowid order
    last_call,            \* the last call of a query function: its name and arguments
    last_return           \* what that call returned

dictVars == <<tag_dictionary, tag_synonyms>>
tagVars == <<case_tags, new_tag_candidates, tag_edit_history, run_pc, run_untagged,
             rule_based_cases>>
batchVars == <<pc, all_cases, batch_size, batch_i, all_results, progress, batch_log,
               attempt, calls, sleeps, retry_log>>
aggVars == <<repair_cases, matrix_month, matrix_result, trend_data, anomalies_pc,
             anomalies>>
callVars == <<uploaded_files, last_call, last_return>>
vars == <<dictVars, batchVars, tagVars, aggVars, callVars>>

-----------------------------------------------------------------------------
(* Bounds of the model *)

MaxTags == 2      \* rows of tag_dictionary
MaxRows == 3      \* rows of tag_dictionary and tag_synonyms together
MaxCases == 3     \* cases handed to process_cases_in_batches
MaxBatch == 2     \* batch_size arguments tried besides the default
DbCases == 1      \* rows of repair_cases (one month)
MaxCandidates == 1    \* rows of new_tag_candidates
MaxHistory == 2   \* rows of tag_edit_history

(* Raw texts the users and the LLM type.  "(Ab)" and "ab" normalize alike,  *)
(* "a-b" normalizes to "a b" and "-" to the empty text;                    *)
(* ratio("ab","abc") = ratio("a b","ab") = 80, ratio("a b","abc") = 66.    *)
Texts ==
    { <<"a", "b">>, <<"(", "A", "b", ")">>, <<"a", "b", "c">>,
      <<"a", "-", "b">>, <<"-">> }

EmptyText == << >>

-----------------------------------------------------------------------------
(* utils/korean_utils.py *)

Brackets == {"(", ")", "[", "]", "<", ">", "{", "}"}
WhiteSpace == {" ", "\t", "\n"}
WordChars == {"a", "b", "c", "A", "B", "C", "_", "0", "1"}
Hangul == {"ga", "na"}

\* str.lower() on one character
lower(c) ==
    CASE c = "A" -> "a"
      [] c = "B" -> "b"
      [] c = "C" -> "c"
      [] OTHER -> c

\* Code point of a character (SQLite's BINARY collation orders by it)
CharCode(c) ==
    CASE c = "\t" -> 9
      [] c = "\n" -> 10
      [] c = " " -> 32
      [] c = "(" -> 40
      [] c = ")" -> 41
      [] c = "-" -> 45
      [] c = "0" -> 48
      [] c = "1" -> 49
      [] c = "<" -> 60
      [] c = ">" -> 62
      [] c = "A" -> 65
      [] c = "B" -> 66
      [] c = "C" -> 67
      [] c = "[" -> 91
      [] c = "]" -> 93
      [] c = "_" -> 95
      [] c = "a" -> 97
      [] c = "b" -> 98
      [] c = "c" -> 99
      [] c = "{" -> 123
      [] c = "}" -> 125
      [] c = "ga" -> 44032
      [] c = "na" -> 45208
      [] OTHER -> 0

RECURSIVE DropSpaceRuns(_, _)
\* re.sub(r"\s+", " ", text): every whitespace run becomes one space
DropSpaceRuns(text, prevSpace) ==
    IF text = << >> THEN << >>
    ELSE IF Head(text) \in WhiteSpace
         THEN IF prevSpace THEN DropSpaceRuns(Tail(text), TRUE)
              ELSE <<" ">> \o DropSpaceRuns(Tail(text), TRUE)
         ELSE <<Head(text)>> \o DropSpaceRuns(Tail(text), FALSE)

\* str.strip() of a text
strip(text) ==
    LET idx == {i \in 1..Len(text) : text[i] \notin WhiteSpace}
    IN  IF idx = {} THEN << >>
        ELSE LET lo == CHOOSE i \in idx : \A j \in idx : i <= j
                 hi == CHOOSE i \in idx : \A j \in idx : i >= j
             IN  SubSeq(text, lo, hi)

normalize_whitespace(text) == strip(DropSpaceRuns(text, FALSE))

normalize_text(text) ==
    IF text = << >> THEN << >>
    ELSE LET lowered == [i \in 1..Len(text) |-> lower(text[i])]
             unbracketed == [i \in 1..Len(text) |->
                                IF lowered[i] \in Brackets THEN " " ELSE lowered[i]]
             cleaned == [i \in 1..Len(text) |->
                            IF unbracketed[i] \in WordChars \cup WhiteSpace \cup Hangul
                            THEN unbracketed[i] ELSE " "]
         IN  normalize_whitespace(cleaned)

-----------------------------------------------------------------------------
(* rapidfuzz: fuzz.ratio, process.extractOne, process.extract *)

RECURSIVE LCS(_, _)
LCS(s, t) ==
    IF s = << >> \/ t = << >> THEN 0
    ELSE IF Head(s) = Head(t) THEN 1 + LCS(Tail(s), Tail(t))
    ELSE LET x == LCS(Tail(s), t)
             y == LCS(s, Tail(t))
         IN  IF x >= y THEN x ELSE y

\* fuzz.ratio in basis points: floor(100 * 100 * 2*LCS / (len1 + len2))
ratio(s, t) ==
    IF Len(s) + Len(t) = 0 THEN 10000
    ELSE (20000 * LCS(s, t)) \div (Len(s) + Len(t))

\* index of the best choice: the maximum score, the first one on a tie
extractOne(query, choices) ==
    CHOOSE i \in 1..Len(choices) :
        /\ \A j \in 1..Len(choices) : ratio(query, choices[j]) <= ratio(query, choices[i])
        /\ \A j \in 1..(i - 1) : ratio(query, choices[j]) < ratio(query, choices[i])


-----------------------------------------------------------------------------
(* core/database.py: the tag dictionary store *)

RECURSIVE TextLess(_, _)
\* s < t in SQLite's BINARY collation (ORDER BY standard_tag)
TextLess(s, t) ==
    IF t = << >> THEN FALSE
    ELSE IF s = << >> THEN TRUE
    ELSE IF CharCode(Head(s)) # CharCode(Head(t))
         THEN CharCode(Head(s)) < CharCode(Head(t))
         ELSE TextLess(Tail(s), Tail(t))

RECURSIVE OrderByTag(_)
\* a set of tag rows as the list ORDER BY standard_tag
OrderByTag(rows) ==
    IF rows = {} THEN << >>
    ELSE LET first == CHOOSE r \in rows :
                          \A q \in rows \ {r} : TextLess(r.standard_tag, q.standard_tag)
         IN  <<first>> \o OrderByTag(rows \ {first})

\* SELECT * FROM tag_dictionary [WHERE is_active = 1] ORDER BY standard_tag
get_all_tags(td, active_only) ==
    OrderByTag({ [id |-> i, standard_tag |-> td[i].standard_tag,
                  is_active |-> td[i].is_active] :
                 i \in {j \in 1..Len(td) : td[j].is_active \/ ~active_only} })

\* INSERT INTO tag_dictionary: standard_tag is UNIQUE, a duplicate raises
add_tag(td, standard_tag) ==
    IF \E i \in 1..Len(td) : td[i].standard_tag = standard_tag
    THEN [raised |-> TRUE, td |-> td, lastrowid |-> 0]
    ELSE [raised |-> FALSE,
          td |-> Append(td, [standard_tag |-> standard_tag, is_active |-> TRUE]),
          lastrowid |-> Len(td) + 1]

\* add_synonym as a plain INSERT: a duplicate synonym text raises
add_synonym_PlainInsert(td, ts, synonym, tag_id) ==
    IF \/ \E i \in 1..Len(ts) : ts[i].synonym = synonym
       \/ tag_id \notin 1..Len(td)
    THEN [raised |-> TRUE, ts |-> ts]
    ELSE [raised |-> FALSE, ts |-> Append(ts, [synonym |-> synonym, tag_id |-> tag_id])]

\* INSERT OR IGNORE INTO tag_synonyms: a row whose synonym text is already
\* there is skipped; a new row must reference an existing tag (foreign key)
add_synonym(td, ts, synonym, tag_id) ==
    IF \E i \in 1..Len(ts) : ts[i].synonym = synonym
    THEN [raised |-> FALSE, ts |-> ts]
    ELSE IF tag_id \notin 1..Len(td)
    THEN [raised |-> TRUE, ts |-> ts]
    ELSE [raised |-> FALSE, ts |-> Append(ts, [synonym |-> synonym, tag_id |-> tag_id])]

\* SELECT synonym, tag_id FROM tag_synonyms, as the dict's items in row order
get_all_synonyms(ts) == ts

\* SELECT synonym FROM tag_synonyms WHERE tag_id = ?
get_synonyms(ts, tag_id) ==
    {ts[i].synonym : i \in {j \in 1..Len(ts) : ts[j].tag_id = tag_id}}

-----------------------------------------------------------------------------
(* core/tag_engine.py: the matching cascade *)

NoMatch == [tag_id |-> 0, standard_tag |-> << >>, confidence |-> 0, method |-> "none"]

FUZZY_MATCH_THRESHOLD == 80

\* stage 1: the first active tag (in load order) whose normalized text is the
\* normalized raw text
ExactStage(normalized, tags) ==
    LET hits == {i \in 1..Len(tags) : normalize_text(tags[i].standard_tag) = normalized}
    IN  IF hits = {} THEN NoMatch
        ELSE LET i == CHOOSE k \in hits : \A j \in hits : k <= j
             IN  [tag_id |-> tags[i].id, standard_tag |-> tags[i].standard_tag,
                  confidence |-> 10000, method |-> "exact"]

\* stage 2 without the test that the owning tag is among the loaded tags
SynonymStage_AnyOwner(normalized, tags, synonyms) ==
    LET hits == {i \in 1..Len(synonyms) : normalize_text(synonyms[i].synonym) = normalized}
    IN  IF hits = {} THEN NoMatch
        ELSE LET i == CHOOSE k \in hits : \A j \in hits : k <= j
                 owner == {k \in 1..Len(tags) : tags[k].id = synonyms[i].tag_id}
             IN  [tag_id |-> synonyms[i].tag_id,
                  standard_tag |-> IF owner = {} THEN << >>
                                   ELSE tags[CHOOSE k \in owner : TRUE].standard_tag,
                  confidence |-> 9500, method |-> "synonym"]

\* stage 2: the first synonym row that normalizes to the normalized raw text
\* and whose owning tag is among the loaded (active) tags
SynonymStage(normalized, tags, synonyms) ==
    LET hits == {i \in 1..Len(synonyms) :
                    /\ normalize_text(synonyms[i].synonym) = normalized
                    /\ \E k \in 1..Len(tags) : tags[k].id = synonyms[i].tag_id}
    IN  IF hits = {} THEN NoMatch
        ELSE LET i == CHOOSE k \in hits : \A j \in hits : k <= j
                 t == CHOOSE k \in 1..Len(tags) : tags[k].id = synonyms[i].tag_id
             IN  [tag_id |-> synonyms[i].tag_id, standard_tag |-> tags[t].standard_tag,
                  confidence |-> 9500, method |-> "synonym"]

\* stage 3 accepting only scores above the threshold
FuzzyStage_Above(normalized, tags) ==
    IF tags = << >> THEN NoMatch
    ELSE LET choices == [i \in 1..Len(tags) |-> normalize_text(tags[i].standard_tag)]
             idx == extractOne(normalized, choices)
             score == ratio(normalized, choices[idx])
         IN  IF score > FUZZY_MATCH_THRESHOLD * 100
             THEN [tag_id |-> tags[idx].id, standard_tag |-> tags[idx].standard_tag,
                   confidence |-> score, method |-> "fuzzy"]
             ELSE NoMatch

\* stage 3: the best-scoring active tag, if its score reaches the threshold
FuzzyStage(normalized, tags) ==
    IF tags = << >> THEN NoMatch
    ELSE LET choices == [i \in 1..Len(tags) |-> normalize_text(tags[i].standard_tag)]
             idx == extractOne(normalized, choices)
             score == ratio(normalized, choices[idx])
         IN  IF score >= FUZZY_MATCH_THRESHOLD * 100
             THEN [tag_id |-> tags[idx].id, standard_tag |-> tags[idx].standard_tag,
                   confidence |-> score, method |-> "fuzzy"]
             ELSE NoMatch

\* the cascade with the synonym stage tried before the exact stage
find_matching_tag_SynonymFirst(raw_text, td, ts) ==
    IF raw_text = << >> THEN NoMatch
    ELSE LET normalized == normalize_text(raw_text)
             tags == get_all_tags(td, TRUE)
             exact == ExactStage(normalized, tags)
             syn == SynonymStage(normalized, tags, get_all_synonyms(ts))
         IN  IF syn # NoMatch THEN syn
             ELSE IF exact # NoMatch THEN exact
             ELSE FuzzyStage(normalized, tags)

find_matching_tag(raw_text, td, ts) ==
    IF raw_text = << >> THEN NoMatch
    ELSE LET normalized == normalize_text(raw_text)
             tags == get_all_tags(td, TRUE)
             synonyms == get_all_synonyms(ts)
             exact == ExactStage(normalized, tags)
             syn == SynonymStage(normalized, tags, synonyms)
         IN  IF exact # NoMatch THEN exact
             ELSE IF syn # NoMatch THEN syn
             ELSE FuzzyStage(normalized, tags)

\* top-1 of process.extract: the nearest active tag whatever its score
\* (<< >> when there is none); similarity in basis points
suggest_similar_tags(raw_text, td) ==
    IF raw_text = << >> THEN << >>
    ELSE LET normalized == normalize_text(raw_text)
             tags == get_all_tags(td, TRUE)
         IN  IF tags = << >> THEN << >>
             ELSE LET choices == [i \in 1..Len(tags) |-> normalize_text(tags[i].standard_tag)]
                      idx == extractOne(normalized, choices)
                  IN  << [tag_id |-> tags[idx].id, standard_tag |-> tags[idx].standard_tag,
                          similarity |-> ratio(normalized, choices[idx])] >>

\* Python's "sub in text" on strings
Contains(sub, text) ==
    \E i \in 0..(Len(text) - Len(sub)) : SubSeq(text, i + 1, i + Len(sub)) = sub

\* process_case_rule_based: every active tag whose normalized text occurs in
\* the normalized "action_notes request_details" text of the case
process_case_rule_based(action_notes, request_details, td) ==
    LET combined == strip(action_notes \o <<" ">> \o request_details)
        tags == get_all_tags(td, TRUE)
        hits == SelectSeq(tags, LAMBDA t : Contains(normalize_text(t.standard_tag),
                                                    normalize_text(combined)))
    IN  IF combined = << >> THEN << >>
        ELSE [k \in 1..Len(hits) |->
                 [tag_id |-> hits[k].id, standard_tag |-> hits[k].standard_tag,
                  confidence |-> 8500, method |-> "contains",
                  ai_raw_text |-> hits[k].standard_tag]]

-----------------------------------------------------------------------------
(* core/learning.py: the feedback loop *)

\* the feedback loop without the "already resolves to this tag" test
update_synonym_from_feedback_NoMatchTest(td, ts, ai_raw_text, confirmed_tag_id) ==
    IF ai_raw_text = << >> \/ normalize_text(ai_raw_text) = << >> THEN ts
    ELSE add_synonym(td, ts, normalize_text(ai_raw_text), confirmed_tag_id).ts

\* the synonym table after update_synonym_from_feedback(ai_raw_text, confirmed_tag_id)
update_synonym_from_feedback(td, ts, ai_raw_text, confirmed_tag_id) ==
    IF ai_raw_text = << >> THEN ts
    ELSE LET normalized == normalize_text(ai_raw_text)
             match == find_matching_tag(ai_raw_text, td, ts)
         IN  IF normalized = << >> THEN ts
             ELSE IF /\ match # NoMatch
                     /\ match.tag_id = confirmed_tag_id
                     /\ match.method \in {"exact", "synonym"}
             THEN ts
             ELSE add_synonym(td, ts, normalized, confirmed_tag_id).ts

-----------------------------------------------------------------------------
(* core/llm_client.py: _call_with_retry, extract_causes_batch and          *)
(* process_cases_in_batches                                                *)

MAX_RETRIES == 3
RETRY_DELAYS == <<1, 3, 10>>
BATCH_SIZE == 5

NoId == 0   \* a result without "db_case_id"

\* the id of the k-th case handed in (ids are the rows' primary keys)
CaseIdAt(k) == 10 + k

\* what the LLM sends back: a response with or without the tool-use block,
\* whose "cases" list holds at most one entry per case of the batch
CaseIndexValues == {-9, 0, 1, 2}
LlmTags == << [tag_text |-> <<"a", "b">>, confidence |-> 9500, is_new |-> FALSE] >>
LlmEntries == [case_index : CaseIndexValues, tags : {LlmTags}]
LlmResponses(n) ==
    [tool_use : {FALSE}, cases : {<< >>}] \cup
    [tool_use : {TRUE}, cases : UNION {[1..k -> LlmEntries] : k \in 0..n}]

\* extract_causes_batch, after _call_with_retry returned the response
extract_causes_batch(response) ==
    IF response.tool_use THEN response.cases ELSE << >>

\* all_cases[actual_idx] of a Python list: a negative index counts from the end
PyIndexOk(cases, idx) == idx >= -Len(cases) /\ idx < Len(cases)
PyIndex(cases, idx) == IF idx >= 0 THEN cases[idx + 1] ELSE cases[Len(cases) + idx + 1]

\* the batch all_cases[batch_i : batch_i + batch_size], as positions of all_cases
BatchPositions(cases, start, size) ==
    {k \in 1..Len(cases) : start < k /\ k <= start + size}

\* the "case_id mapping" loop over the returned entries
MapResults(cases, start, results) ==
    [k \in 1..Len(results) |->
        LET actual_idx == start + (results[k].case_index - 1)
        IN  [case_index |-> results[k].case_index,
             db_case_id |-> IF actual_idx < Len(cases)
                            THEN PyIndex(cases, actual_idx) ELSE NoId,
             tags |-> results[k].tags,
             error |-> FALSE,
             summary |-> "summary"]]

\* whether the mapping loop raises IndexError
MapRaises(cases, start, results) ==
    \E k \in 1..Len(results) :
        LET actual_idx == start + (results[k].case_index - 1)
        IN  actual_idx < Len(cases) /\ ~PyIndexOk(cases, actual_idx)

\* the except branch taking the cases from the head of all_cases instead of
\* from the batch
ErrorResults_FromHead(cases, start, size, message) ==
    LET n == Cardinality(BatchPositions(cases, start, size))
    IN  [j \in 1..n |->
            [case_index |-> j,
             db_case_id |-> cases[j],
             tags |-> << >>,
             error |-> TRUE,
             summary |-> message]]

\* the except branch: one error entry per case of the batch
ErrorResults(cases, start, size, message) ==
    LET n == Cardinality(BatchPositions(cases, start, size))
    IN  [j \in 1..n |->
            [case_index |-> j,
             db_case_id |-> cases[start + j],
             tags |-> << >>,
             error |-> TRUE,
             summary |-> message]]

\* one iteration of the for loop of process_cases_in_batches, given how
\* extract_causes_batch ended: what is appended to all_results
BatchResults(cases, start, size, outcome) ==
    IF outcome.raised
    THEN ErrorResults(cases, start, size, outcome.message)
    ELSE IF MapRaises(cases, start, outcome.cases)
    THEN ErrorResults(cases, start, size, "list index out of range")
    ELSE MapResults(cases, start, outcome.cases)

BatchFailed(cases, start, outcome) ==
    outcome.raised \/ MapRaises(cases, start, outcome.cases)

Min(a, b) == IF a <= b THEN a ELSE b

\* the progress callback's first argument without the cap at total
ProgressCount_Uncapped(start, size, total) == start + size

\* the progress callback's first argument after the batch at `start`
ProgressCount(start, size, total) == Min(start + size, total)

NoRetryLog == [calls |-> 0, sleeps |-> << >>, outcome |-> "none"]

\* the tagging tables of a fresh database, no auto-tagging run under way
TagIdle ==
    /\ case_tags = {}
    /\ new_tag_candidates = << >>
    /\ tag_edit_history = << >>
    /\ run_pc = "idle"
    /\ run_untagged = << >>
    /\ rule_based_cases = {}

\* what product_tag_matrix returns for a month without tagged cases
EmptyMatrix == [matrix |-> << >>, products |-> << >>, tags |-> << >>, total_cases |-> 0]

\* no file uploaded, no query function called yet
CallIdle ==
    /\ uploaded_files = << >>
    /\ last_call = << >>
    /\ last_return = << >>

\* no case imported, the analysis page not opened yet
AggIdle ==
    /\ repair_cases = << >>
    /\ matrix_month = 0
    /\ matrix_result = EmptyMatrix
    /\ trend_data = [months |-> << >>, by_product_month |-> << >>, by_tag_month |-> << >>]
    /\ anomalies_pc = "idle"
    /\ anomalies = << >>

BatchIdle ==
    /\ pc = "idle"
    /\ all_cases = << >>
    /\ batch_size = BATCH_SIZE
    /\ batch_i = 0
    /\ all_results = << >>
    /\ progress = << >>
    /\ batch_log = << >>
    /\ attempt = 0
    /\ calls = 0
    /\ sleeps = << >>
    /\ retry_log = NoRetryLog

InitBatch ==
    /\ tag_dictionary = << >>
    /\ tag_synonyms = << >>
    /\ BatchIdle
    /\ TagIdle
    /\ AggIdle
    /\ CallIdle

\* process_cases_in_batches(all_cases, tag_dictionary, batch_size, callback) is called
Start(n, size) ==
    /\ pc = "idle"
    /\ all_cases' = [k \in 1..n |-> CaseIdAt(k)]
    /\ batch_size' = size
    /\ pc' = IF n = 0 THEN "done" ELSE "attempt"
    /\ UNCHANGED <<batch_i, all_results, progress, batch_log, attempt, calls, sleeps,
                   retry_log, dictVars, tagVars, aggVars, callVars>>

\* the rest of the loop body once extract_causes_batch has ended with
\* `outcome`: map or record the error, report progress, go to the next batch
FinishBatch(outcome) ==
    LET results == BatchResults(all_cases, batch_i, batch_size, outcome)
        total == Len(all_cases)
    IN  /\ all_results' = all_results \o results
        /\ progress' = Append(progress, <<ProgressCount(batch_i, batch_size, total), total>>)
        /\ batch_log' = Append(batch_log,
                               [start |-> batch_i,
                                failed |-> BatchFailed(all_cases, batch_i, outcome),
                                outcome |-> outcome,
                                results |-> results])
        /\ batch_i' = batch_i + batch_size
        /\ pc' = IF batch_i + batch_size < total THEN "attempt" ELSE "done"
        /\ attempt' = 0
        /\ calls' = 0
        /\ sleeps' = << >>
        /\ UNCHANGED <<all_cases, batch_size, dictVars, tagVars, aggVars, callVars>>

\* func() returns a response: _call_with_retry returns it
AttemptReturns(response) ==
    /\ pc = "attempt"
    /\ retry_log' = [calls |-> calls + 1, sleeps |-> sleeps, outcome |-> "returned"]
    /\ FinishBatch([raised |-> FALSE, message |-> "",
                    cases |-> extract_causes_batch(response)])

\* the rate-limit branch retrying on the last attempt too
ShouldRetry_Always(n) == n < MAX_RETRIES

\* "if attempt < MAX_RETRIES - 1": whether a rate-limited attempt is retried
ShouldRetry(n) == n < MAX_RETRIES - 1

\* func() raises anthropic.RateLimitError: sleep and go round, or re-raise
\* on the last attempt
AttemptRateLimited ==
    /\ pc = "attempt"
    /\ IF ShouldRetry(attempt)
       THEN /\ sleeps' = Append(sleeps, RETRY_DELAYS[attempt + 1])
            /\ attempt' = attempt + 1
            /\ calls' = calls + 1
            /\ UNCHANGED <<pc, all_cases, batch_size, batch_i, all_results, progress,
                           batch_log, retry_log, dictVars, tagVars, aggVars, callVars>>
       ELSE /\ retry_log' = [calls |-> calls + 1, sleeps |-> sleeps,
                             outcome |-> "RateLimitError"]
            /\ FinishBatch([raised |-> TRUE, message |-> "RateLimitError",
                            cases |-> << >>])

\* func() raises another anthropic.APIError: re-raised at once
AttemptApiError ==
    /\ pc = "attempt"
    /\ retry_log' = [calls |-> calls + 1, sleeps |-> sleeps, outcome |-> "APIError"]
    /\ FinishBatch([raised |-> TRUE, message |-> "APIError", cases |-> << >>])

NextBatch ==
    \/ \E n \in 0..MaxCases, size \in (1..MaxBatch) \cup {BATCH_SIZE} : Start(n, size)
    \/ \E r \in LlmResponses(Cardinality(BatchPositions(all_cases, batch_i, batch_size))) :
           AttemptReturns(r)
    \/ AttemptRateLimited
    \/ AttemptApiError

SpecBatch == InitBatch /\ [][NextBatch]_vars

-----------------------------------------------------------------------------
(* Properties of the batched LLM run (SpecBatch) *)

RECURSIVE ConcatResults(_, _)
\* the results of the first n logged batches, in order
ConcatResults(log, n) ==
    IF n = 0 THEN << >> ELSE ConcatResults(log, n - 1) \o log[n].results

NumBatches(total, size) == (total + size - 1) \div size

\* C6: a batch whose extract_causes_batch raised leaves one error entry per
\* case of that batch (own id, no tags, error flag, the exception's message);
\* every batch is processed at its own place whatever happened before, the
\* results collected are exactly those of all batches in order, and the run
\* ends normally after the last batch.
C6_BatchFailureIsolated ==
    /\ all_results = ConcatResults(batch_log, Len(batch_log))
    /\ \A k \in 1..Len(batch_log) :
          LET b == batch_log[k]
              n == Cardinality(BatchPositions(all_cases, b.start, batch_size))
          IN  /\ b.start = (k - 1) * batch_size
              /\ b.outcome.raised =>
                    /\ Len(b.results) = n
                    /\ \A j \in 1..n :
                          /\ b.results[j].db_case_id = all_cases[b.start + j]
                          /\ b.results[j].tags = << >>
                          /\ b.results[j].error
                          /\ b.results[j].summary = b.outcome.message
    /\ pc = "attempt" => Len(batch_log) < NumBatches(Len(all_cases), batch_size)
    /\ pc = "done" => Len(batch_log) = NumBatches(Len(all_cases), batch_size)

\* a run has ended in which a middle batch failed between two batches that
\* returned results
C6_Witness ==
    /\ pc = "done"
    /\ \E k \in 2..(Len(batch_log) - 1) :
          /\ batch_log[k].outcome.raised
          /\ ~batch_log[k - 1].failed /\ batch_log[k - 1].results # << >>
          /\ ~batch_log[k + 1].failed /\ batch_log[k + 1].results # << >>

\* C7 (as claimed): when the run has ended, every case handed in has a
\* result entry with its id, carrying its tags or the error flag.
C7_NoCaseDropped ==
    pc = "done" =>
        \A k \in 1..Len(all_cases) :
            \E j \in 1..Len(all_results) : all_results[j].db_case_id = all_cases[k]

\* C28: every result the LLM returned for a batch that carries a db_case_id
\* carries that of a case of the batch, whatever its case_index (0, negative,
\* or beyond the batch); no result is attributed to a case of another batch
C28_ResultInOwnBatch ==
    \A k \in 1..Len(batch_log) :
        LET b == batch_log[k]
        IN  ~b.failed =>
                \A j \in 1..Len(b.results) :
                    \/ b.results[j].db_case_id = NoId
                    \/ \E p \in BatchPositions(all_cases, b.start, batch_size) :
                          b.results[j].db_case_id = all_cases[p]

C8_Delays == <<1, 3>>

C8_State ==
    /\ pc = "attempt" =>
          /\ attempt \in 0..2
          /\ calls = attempt
          /\ sleeps = SubSeq(C8_Delays, 1, attempt)
    /\ retry_log.outcome # "none" =>
          /\ retry_log.calls \in 1..3
          /\ retry_log.sleeps = SubSeq(C8_Delays, 1, retry_log.calls - 1)
          /\ retry_log.outcome \in {"returned", "RateLimitError", "APIError"}
          /\ retry_log.outcome = "RateLimitError" => retry_log.calls = 3

\* every step inside _call_with_retry either ends it or is a rate-limited
\* call followed by the next attempt
C8_Step ==
    (pc = "attempt" /\ batch_log' = batch_log) =>
        /\ pc' = "attempt"
        /\ attempt' = attempt + 1
        /\ calls' = calls + 1
        /\ Len(sleeps') = Len(sleeps) + 1

\* C8: _call_with_retry calls the LLM at most 3 times and ends: the k-th call
\* is made after k-1 rate-limited calls and waits of 1s, then 3s; a rate-limit
\* error of the third call and any other API error end it by raising, a
\* response ends it by returning.
C8_RetryBounded == [](C8_State) /\ [][C8_Step]_vars

\* the third call returned a response after two rate-limited calls
C8_Witness ==
    retry_log = [calls |-> 3, sleeps |-> <<1, 3>>, outcome |-> "returned"]

\* C9: the progress callback has been called once per finished batch, failed
\* ones included, always with total = the number of cases and with a count
\* that strictly increases, never exceeds total and is total on the last call.
C9_Progress ==
    LET total == Len(all_cases)
    IN  /\ pc = "attempt" => Len(progress) = batch_i \div batch_size
        /\ pc = "done" => Len(progress) = NumBatches(total, batch_size)
        /\ \A k \in 1..Len(progress) :
              /\ progress[k][2] = total
              /\ progress[k][1] <= total
              /\ progress[k][1] > (IF k = 1 THEN 0 ELSE progress[k - 1][1])
        /\ (pc = "done" /\ total > 0) => progress[Len(progress)][1] = total

\* a run of several batches, one of them failed, has ended with a last batch
\* shorter than batch_size
C9_Witness ==
    /\ pc = "done"
    /\ Len(progress) >= 2
    /\ \E k \in 1..Len(batch_log) : batch_log[k].failed
    /\ Len(all_cases) % batch_size # 0

-----------------------------------------------------------------------------
(* Dictionary management: pages/03_dictionary.py and the store's functions *)

InitDict ==
    /\ tag_dictionary = << >>
    /\ tag_synonyms = << >>
    /\ BatchIdle
    /\ TagIdle
    /\ AggIdle
    /\ CallIdle

\* the "add tag" form: add_tag(new_tag.strip()); a failure is shown, not raised
AddTagSubmit(new_tag) ==
    LET r == add_tag(tag_dictionary, strip(new_tag))
    IN  /\ new_tag # << >>
        /\ Len(r.td) <= MaxTags
        /\ Len(r.td) + Len(tag_synonyms) <= MaxRows
        /\ tag_dictionary' = r.td
        /\ UNCHANGED <<tag_synonyms, batchVars, tagVars, aggVars, callVars>>

\* the "deactivate" button: UPDATE tag_dictionary SET is_active = 0 WHERE standard_tag = ?
DeactivateTag(i) ==
    /\ i \in 1..Len(tag_dictionary)
    /\ tag_dictionary[i].is_active
    /\ tag_dictionary' =
          [j \in 1..Len(tag_dictionary) |->
              IF tag_dictionary[j].standard_tag = tag_dictionary[i].standard_tag
              THEN [tag_dictionary[j] EXCEPT !.is_active = FALSE]
              ELSE tag_dictionary[j]]
    /\ UNCHANGED <<tag_synonyms, batchVars, tagVars, aggVars, callVars>>

\* the "add synonym" form: add_synonym(new_syn.strip(), selected_tag.id) for a
\* tag selected among the active ones
AddSynonymSubmit(new_syn, i) ==
    LET r == add_synonym(tag_dictionary, tag_synonyms, strip(new_syn), i)
    IN  /\ new_syn # << >>
        /\ i \in 1..Len(tag_dictionary)
        /\ tag_dictionary[i].is_active
        /\ Len(tag_dictionary) + Len(r.ts) <= MaxRows
        /\ tag_synonyms' = r.ts
        /\ UNCHANGED <<tag_dictionary, batchVars, tagVars, aggVars, callVars>>

\* a call of add_synonym(conn, synonym, tag_id) with any tag id; an
\* IntegrityError of the foreign key leaves the table as it was
AddSynonymCall(synonym, tag_id) ==
    LET r == add_synonym(tag_dictionary, tag_synonyms, synonym, tag_id)
    IN  /\ Len(tag_dictionary) + Len(r.ts) <= MaxRows
        /\ tag_synonyms' = r.ts
        /\ UNCHANGED <<tag_dictionary, batchVars, tagVars, aggVars, callVars>>

\* a call of update_synonym_from_feedback(conn, ai_raw_text, confirmed_tag_id)
\* for an existing tag
Feedback(ai_raw_text, confirmed_tag_id) ==
    LET ts == update_synonym_from_feedback(tag_dictionary, tag_synonyms,
                                           ai_raw_text, confirmed_tag_id)
    IN  /\ confirmed_tag_id \in 1..Len(tag_dictionary)
        /\ Len(tag_dictionary) + Len(ts) <= MaxRows
        /\ tag_synonyms' = ts
        /\ UNCHANGED <<tag_dictionary, batchVars, tagVars, aggVars, callVars>>

NextDict ==
    \/ \E t \in Texts : AddTagSubmit(t)
    \/ \E i \in 1..MaxTags : DeactivateTag(i)
    \/ \E t \in Texts, i \in 1..MaxTags : AddSynonymSubmit(t, i)
    \/ \E t \in Texts, i \in 1..(MaxTags + 1) : AddSynonymCall(t, i)
    \/ \E t \in Texts \cup {EmptyText}, i \in 1..MaxTags : Feedback(t, i)

SpecDict == InitDict /\ [][NextDict]_vars

-----------------------------------------------------------------------------
(* Properties of the dictionary and the matching cascade (SpecDict) *)

ActiveIds == {i \in 1..Len(tag_dictionary) : tag_dictionary[i].is_active}

HasSynonym(text) == \E i \in 1..Len(tag_synonyms) : tag_synonyms[i].synonym = text

\* C1: for every non-empty raw text that normalizes like the text of some
\* active tag, find_matching_tag returns an active tag with that normalized
\* text, confidence 1.0 and method "exact", whatever the synonym rows and the
\* fuzzy scores say.
C1_ExactPrecedence ==
    \A raw \in Texts :
        (\E i \in ActiveIds :
            normalize_text(tag_dictionary[i].standard_tag) = normalize_text(raw))
        => LET m == find_matching_tag(raw, tag_dictionary, tag_synonyms)
           IN  /\ m.method = "exact"
               /\ m.confidence = 10000
               /\ m.tag_id \in ActiveIds
               /\ m.standard_tag = tag_dictionary[m.tag_id].standard_tag
               /\ normalize_text(m.standard_tag) = normalize_text(raw)

\* an active tag matches the raw text exactly while a synonym row with the
\* same normalized text belongs to another active tag
C1_Witness ==
    \E raw \in Texts, i \in ActiveIds, k \in 1..Len(tag_synonyms) :
        /\ normalize_text(tag_dictionary[i].standard_tag) = normalize_text(raw)
        /\ normalize_text(tag_synonyms[k].synonym) = normalize_text(raw)
        /\ tag_synonyms[k].tag_id \in ActiveIds \ {i}
        /\ normalize_text(tag_dictionary[tag_synonyms[k].tag_id].standard_tag)
               # normalize_text(raw)

\* C2: every synonym text of the table maps to exactly one tag, and adding a
\* synonym text that is already in the table, with any tag id, does not
\* raise, adds no row and leaves the table (so the first mapping) as it was.
C2_SynonymIdempotent ==
    /\ \A i, j \in 1..Len(tag_synonyms) :
          tag_synonyms[i].synonym = tag_synonyms[j].synonym => i = j
    /\ \A i \in 1..Len(tag_synonyms), tag_id \in 1..(MaxTags + 1) :
          LET r == add_synonym(tag_dictionary, tag_synonyms,
                               tag_synonyms[i].synonym, tag_id)
          IN  ~r.raised /\ r.ts = tag_synonyms

\* a synonym has been added and another existing tag could claim its text
C2_Witness ==
    /\ Len(tag_synonyms) >= 1
    /\ \E t \in 1..Len(tag_dictionary) : t # tag_synonyms[1].tag_id

\* C4: update_synonym_from_feedback(raw, T) leaves the synonym table as it is
\* when normalize(raw) is empty or find_matching_tag(raw) already gives T by
\* "exact" or "synonym"; otherwise, when no row has the text normalize(raw),
\* it appends exactly the row normalize(raw) -> T; and a second call with the
\* same arguments changes nothing more, its add_synonym not raising.
C4_FeedbackSynonym ==
    \A raw \in Texts \cup {EmptyText}, T \in 1..Len(tag_dictionary) :
        LET n == normalize_text(raw)
            m == find_matching_tag(raw, tag_dictionary, tag_synonyms)
            resolved == m.tag_id = T /\ m.method \in {"exact", "synonym"}
            ts1 == update_synonym_from_feedback(tag_dictionary, tag_synonyms, raw, T)
            ts2 == update_synonym_from_feedback(tag_dictionary, ts1, raw, T)
        IN  /\ (n = << >> \/ resolved) => ts1 = tag_synonyms
            /\ (n # << >> /\ ~resolved /\ ~HasSynonym(n))
                  => ts1 = Append(tag_synonyms, [synonym |-> n, tag_id |-> T])
            /\ ts2 = ts1
            /\ ~add_synonym(tag_dictionary, ts1, n, T).raised

\* the feedback loop has registered "a b", the normalized form of "a-b",
\* which no form input produces
C4_Witness ==
    \E k \in 1..Len(tag_synonyms) :
        /\ tag_synonyms[k].synonym = <<"a", " ", "b">>
        /\ tag_synonyms[k].tag_id \in 1..Len(tag_dictionary)

\* C26: after update_synonym_from_feedback(raw, T), T an active tag and
\* normalize(raw) not empty, find_matching_tag(raw) returns T by exact or
\* synonym match, in every dictionary state (also when normalize(raw) was
\* already a synonym of, or the exact text of, another tag)
C26_FeedbackResolves ==
    \A raw \in Texts, T \in ActiveIds :
        normalize_text(raw) # << >> =>
            LET ts1 == update_synonym_from_feedback(tag_dictionary, tag_synonyms, raw, T)
                m == find_matching_tag(raw, tag_dictionary, ts1)
            IN  m.tag_id = T /\ m.method \in {"exact", "synonym"}

\* C14: when no active tag matches the raw text exactly and some synonym of
\* an active tag normalizes like the raw text, find_matching_tag returns the
\* owner of such a synonym with confidence 0.95 and method "synonym"; and
\* whatever the raw text, the tag it returns is never a deactivated one.
C14_SynonymStage ==
    \A raw \in Texts :
        LET n == normalize_text(raw)
            m == find_matching_tag(raw, tag_dictionary, tag_synonyms)
            exact == \E i \in ActiveIds : normalize_text(tag_dictionary[i].standard_tag) = n
            owners == {tag_synonyms[k].tag_id :
                          k \in {j \in 1..Len(tag_synonyms) :
                                    /\ normalize_text(tag_synonyms[j].synonym) = n
                                    /\ tag_synonyms[j].tag_id \in ActiveIds}}
        IN  /\ (~exact /\ owners # {}) =>
                  /\ m.method = "synonym"
                  /\ m.confidence = 9500
                  /\ m.tag_id \in owners
                  /\ m.standard_tag = tag_dictionary[m.tag_id].standard_tag
            /\ m.method = "synonym" => (~exact /\ owners # {})
            /\ m # NoMatch => m.tag_id \in ActiveIds

\* a raw text is the synonym of a deactivated tag and resolves to another,
\* active tag or to nothing
C14_Witness ==
    \E raw \in Texts, k \in 1..Len(tag_synonyms) :
        /\ normalize_text(tag_synonyms[k].synonym) = normalize_text(raw)
        /\ tag_synonyms[k].tag_id \notin ActiveIds
        /\ ActiveIds # {}

\* C15: when neither an active tag nor a synonym of an active tag normalizes
\* like the raw text, find_matching_tag returns an active tag of maximum
\* score s with method "fuzzy" and confidence s/100 if s >= 80, and no match
\* if s < 80 or no tag is active.
C15_FuzzyThreshold ==
    \A raw \in Texts :
        LET n == normalize_text(raw)
            m == find_matching_tag(raw, tag_dictionary, tag_synonyms)
            exact == \E i \in ActiveIds : normalize_text(tag_dictionary[i].standard_tag) = n
            syn == \E k \in 1..Len(tag_synonyms) :
                       /\ normalize_text(tag_synonyms[k].synonym) = n
                       /\ tag_synonyms[k].tag_id \in ActiveIds
            score(i) == ratio(n, normalize_text(tag_dictionary[i].standard_tag))
            best == {i \in ActiveIds : \A j \in ActiveIds : score(j) <= score(i)}
        IN  (~exact /\ ~syn) =>
                IF \E i \in best : score(i) >= 8000
                THEN /\ m.method = "fuzzy"
                     /\ m.tag_id \in best
                     /\ m.confidence = score(m.tag_id)
                     /\ m.standard_tag = tag_dictionary[m.tag_id].standard_tag
                ELSE m = NoMatch

\* one raw text scores exactly 80 against its best active tag and is matched,
\* another scores below 80 (but not 0) against its best active tag and is not
C15_Witness ==
    \E raw1, raw2 \in Texts :
        LET m1 == find_matching_tag(raw1, tag_dictionary, tag_synonyms)
            m2 == find_matching_tag(raw2, tag_dictionary, tag_synonyms)
        IN  /\ m1.method = "fuzzy" /\ m1.confidence = 8000
            /\ m2 = NoMatch
            /\ \E i \in ActiveIds :
                   ratio(normalize_text(raw2),
                         normalize_text(tag_dictionary[i].standard_tag)) > 0

-----------------------------------------------------------------------------
(* core/database.py: case tags, tag candidates and the edit history *)

HIGH_CONFIDENCE_THRESHOLD == 9000   \* 0.9

NoScore == -1   \* similarity_score NULL

\* repair_cases of the selected month, ORDER BY row_number (at most one batch)
RepairCases == [k \in 1..DbCases |-> CaseIdAt(k)]

CaseIds == {RepairCases[k] : k \in 1..DbCases}

\* get_untagged_cases: the month's cases that have no row with is_final = 1
get_untagged_cases(ct) ==
    SelectSeq(RepairCases, LAMBDA id : ~\E r \in ct : r.case_id = id /\ r.is_final)

\* the row upsert_case_tag writes when the pair is new; confirmed_at is not
\* among the inserted columns and stays NULL (FALSE)
CaseTagRow(case_id, tag_id, source, confidence, ai_raw_text, is_final) ==
    [case_id |-> case_id, tag_id |-> tag_id, source |-> source,
     confidence |-> confidence, ai_raw_text |-> ai_raw_text,
     is_final |-> is_final, confirmed_at |-> FALSE]

\* upsert_case_tag as a plain INSERT into a table without the UNIQUE constraint
upsert_case_tag_PlainInsert(td, ct, case_id, tag_id, source, confidence, ai_raw_text, is_final) ==
    [raised |-> case_id \notin CaseIds \/ tag_id \notin 1..Len(td),
     ct |-> IF case_id \notin CaseIds \/ tag_id \notin 1..Len(td) THEN ct
            ELSE ct \cup {[CaseTagRow(case_id, tag_id, source, confidence, ai_raw_text,
                                      is_final)
                           EXCEPT !.confirmed_at = is_final]}]

\* INSERT ... ON CONFLICT(case_id, tag_id) DO UPDATE; an absent ai_raw_text
\* argument is NULL (<< >>); the foreign keys are enforced
upsert_case_tag(td, ct, case_id, tag_id, source, confidence, ai_raw_text, is_final) ==
    LET old == {r \in ct : r.case_id = case_id /\ r.tag_id = tag_id}
        row == CaseTagRow(case_id, tag_id, source, confidence, ai_raw_text, is_final)
    IN  IF case_id \notin CaseIds \/ tag_id \notin 1..Len(td)
        THEN [raised |-> TRUE, ct |-> ct]
        ELSE IF old = {}
        THEN [raised |-> FALSE, ct |-> ct \cup {row}]
        ELSE [raised |-> FALSE,
              ct |-> (ct \ old) \cup
                     {[row EXCEPT !.confirmed_at = is_final \/ r.confirmed_at] : r \in old}]

\* get_case_tags(case_id), as a set
get_case_tags(ct, case_id) == {r \in ct : r.case_id = case_id}

\* INSERT INTO new_tag_candidates; status defaults to 'pending'
add_new_tag_candidate(cands, proposed_text, case_id, similar_tag_id, similarity_score) ==
    Append(cands, [proposed_text |-> proposed_text, case_id |-> case_id,
                   similar_tag_id |-> similar_tag_id,
                   similarity_score |-> similarity_score, status |-> "pending"])

\* get_pending_candidates, as the set of the ids (rowids) of the pending rows
get_pending_candidates(cands) ==
    {k \in 1..Len(cands) : cands[k].status = "pending"}

\* the "approve" button of candidate `id`: add_tag, then the UPDATE of the row
\* (resolved_at, a timestamp set together with status, is not kept); when
\* add_tag raises the script stops there and nothing is written
approve_candidate(td, cands, id) ==
    LET added == add_tag(td, cands[id].proposed_text)
    IN  IF added.raised
        THEN [raised |-> TRUE, td |-> td, cands |-> cands]
        ELSE [raised |-> FALSE, td |-> added.td,
              cands |-> [cands EXCEPT ![id].status = "approved"]]

\* the "reject" button of candidate `id`
reject_candidate(cands, id) == [cands EXCEPT ![id].status = "rejected"]

\* INSERT INTO tag_edit_history; old_tag_id is never passed
record_edit(history, case_id, new_tag_id, action) ==
    Append(history, [case_id |-> case_id, old_tag_id |-> NoId,
                     new_tag_id |-> new_tag_id, action |-> action])

-----------------------------------------------------------------------------
(* pages/02_tagging.py: the auto-tagging run and the review handlers *)

\* what the LLM proposes for a case of the run
ProposalTexts == { <<"a", "b", "c">>, <<"a", "-", "b">>, <<" ", "c">>, <<" ">> }
LlmConfidences == {5000, 9000, 12000}   \* 0.5, 0.9 and 1.2: the schema sets no range
Proposals == [tag_text : ProposalTexts, confidence : LlmConfidences, is_new : BOOLEAN]

\* the responses of a run: no tool-use block, or a "cases" list of at most
\* one entry with at most one proposal, whose case_index names a case of the
\* month or the position after the last one
TaggingEntries ==
    [case_index : 1..(DbCases + 1), tags : {<< >>} \cup {<<p>> : p \in Proposals}]
TaggingResponses ==
    [tool_use : {FALSE}, cases : {<< >>}] \cup
    [tool_use : {TRUE}, cases : {<< >>} \cup {<<e>> : e \in TaggingEntries}]

\* how extract_causes_batch can end in a run
TaggingOutcomes ==
    {[raised |-> FALSE, message |-> "", cases |-> extract_causes_batch(r)] :
        r \in TaggingResponses}
    \cup {[raised |-> TRUE, message |-> "APIError", cases |-> << >>]}

\* the loop body registering a candidate for every unresolved proposal,
\* whatever its is_new flag
PersistProposal_NoNewTest(db, td, ts, case_id, tag_info) ==
    LET tag_text == strip(tag_info.tag_text)
        match == find_matching_tag(tag_text, td, ts)
        similar == suggest_similar_tags(tag_text, td)
    IN  IF tag_text = << >> THEN db
        ELSE IF match # NoMatch
        THEN [db EXCEPT !.case_tags =
                 upsert_case_tag(td, @, case_id, match.tag_id, "ai_proposed",
                                 tag_info.confidence, tag_text,
                                 tag_info.confidence >= HIGH_CONFIDENCE_THRESHOLD).ct]
        ELSE [db EXCEPT !.new_tag_candidates =
                 add_new_tag_candidate(@, tag_text, case_id,
                     IF similar # << >> THEN similar[1].tag_id ELSE NoId,
                     IF similar # << >> THEN similar[1].similarity ELSE NoScore)]

\* the loop body making a row final only above the threshold
PersistProposal_StrictFinal(db, td, ts, case_id, tag_info) ==
    LET tag_text == strip(tag_info.tag_text)
        confidence == tag_info.confidence
        match == find_matching_tag(tag_text, td, ts)
        similar == suggest_similar_tags(tag_text, td)
    IN  IF tag_text = << >> THEN db
        ELSE IF match # NoMatch
        THEN [db EXCEPT !.case_tags =
                 upsert_case_tag(td, @, case_id, match.tag_id, "ai_proposed", confidence,
                                 tag_text, confidence > HIGH_CONFIDENCE_THRESHOLD).ct]
        ELSE IF tag_info.is_new
        THEN [db EXCEPT !.new_tag_candidates =
                 add_new_tag_candidate(@, tag_text, case_id,
                     IF similar # << >> THEN similar[1].tag_id ELSE NoId,
                     IF similar # << >> THEN similar[1].similarity ELSE NoScore)]
        ELSE db

\* the body of "for tag_info in result.get('tags', [])" on the tables db
PersistProposal(db, td, ts, case_id, tag_info) ==
    LET tag_text == strip(tag_info.tag_text)
        confidence == tag_info.confidence
        match == find_matching_tag(tag_text, td, ts)
        similar == suggest_similar_tags(tag_text, td)
    IN  IF tag_text = << >> THEN db
        ELSE IF match # NoMatch
        THEN [db EXCEPT !.case_tags =
                 upsert_case_tag(td, @, case_id, match.tag_id, "ai_proposed", confidence,
                                 tag_text, confidence >= HIGH_CONFIDENCE_THRESHOLD).ct]
        ELSE IF tag_info.is_new
        THEN [db EXCEPT !.new_tag_candidates =
                 add_new_tag_candidate(@, tag_text, case_id,
                     IF similar # << >> THEN similar[1].tag_id ELSE NoId,
                     IF similar # << >> THEN similar[1].similarity ELSE NoScore)]
        ELSE db

RECURSIVE PersistTags(_, _, _, _, _)
PersistTags(db, td, ts, case_id, tags) ==
    IF tags = << >> THEN db
    ELSE PersistTags(PersistProposal(db, td, ts, case_id, Head(tags)),
                     td, ts, case_id, Tail(tags))

RECURSIVE PersistResults(_, _, _, _)
\* "for result in results": results without db_case_id or marked error are skipped
PersistResults(db, td, ts, results) ==
    IF results = << >> THEN db
    ELSE LET result == Head(results)
         IN  IF result.db_case_id = NoId \/ result.error
             THEN PersistResults(db, td, ts, Tail(results))
             ELSE PersistResults(PersistTags(db, td, ts, result.db_case_id, result.tags),
                                 td, ts, Tail(results))

\* results of process_cases_in_batches(untagged, tag_dict): one batch
RunResults(untagged, outcome) == BatchResults(untagged, 0, BATCH_SIZE, outcome)

\* the tables after the run's persistence loop
RunPersist(untagged, outcome) ==
    PersistResults([case_tags |-> case_tags, new_tag_candidates |-> new_tag_candidates],
                   tag_dictionary, tag_synonyms, RunResults(untagged, outcome))

\* dictionaries the dictionary page has left behind when tagging starts
SeedDictionaries ==
    { [td |-> << >>, ts |-> << >>],
      [td |-> << [standard_tag |-> <<"c">>, is_active |-> FALSE] >>, ts |-> << >>],
      [td |-> << [standard_tag |-> <<"a", "b">>, is_active |-> TRUE],
                 [standard_tag |-> <<"a", "b", "c">>, is_active |-> FALSE] >>,
       ts |-> << [synonym |-> <<"a", " ", "b">>, tag_id |-> 1] >>],
      [td |-> << [standard_tag |-> <<"a", "b">>, is_active |-> TRUE],
                 [standard_tag |-> <<"a", "b", "c">>, is_active |-> TRUE] >>,
       ts |-> << >>] }

InitTag ==
    /\ \E d \in SeedDictionaries : tag_dictionary = d.td /\ tag_synonyms = d.ts
    /\ BatchIdle
    /\ TagIdle
    /\ AggIdle
    /\ CallIdle

\* the "run auto-tagging" button, shown while `untagged` is not empty: the
\* script read `untagged` when it started and now waits for the LLM
AutoTagClick ==
    /\ run_pc = "idle"
    /\ get_untagged_cases(case_tags) # << >>
    /\ run_pc' = "running"
    /\ run_untagged' = get_untagged_cases(case_tags)
    /\ rule_based_cases' = {}   \* the handler has no call of process_case_rule_based
    /\ UNCHANGED <<case_tags, new_tag_candidates, tag_edit_history, dictVars, batchVars, aggVars, callVars>>

\* process_cases_in_batches has returned: the persistence loop and the commit
AutoTagPersist(outcome) ==
    LET db == RunPersist(run_untagged, outcome)
    IN  /\ run_pc = "running"
        /\ Len(db.new_tag_candidates) <= MaxCandidates
        /\ case_tags' = db.case_tags
        /\ new_tag_candidates' = db.new_tag_candidates
        /\ run_pc' = "idle"
        /\ run_untagged' = << >>
        /\ UNCHANGED <<tag_edit_history, rule_based_cases, dictVars, batchVars, aggVars, callVars>>

\* the "confirm" button of a non-final tag of a case
ConfirmTag(case_id, tag_id) ==
    /\ \E ct \in get_case_tags(case_tags, case_id) : ct.tag_id = tag_id /\ ~ct.is_final
    /\ Len(tag_edit_history) < MaxHistory
    /\ case_tags' = upsert_case_tag(tag_dictionary, case_tags, case_id, tag_id,
                                    "user_confirmed", 10000, << >>, TRUE).ct
    /\ tag_edit_history' = record_edit(tag_edit_history, case_id, tag_id, "confirm")
    /\ UNCHANGED <<new_tag_candidates, run_pc, run_untagged, rule_based_cases,
                   dictVars, batchVars, aggVars, callVars>>

\* the "reject" button of a non-final tag of a case
RejectTag(case_id, tag_id) ==
    /\ \E ct \in get_case_tags(case_tags, case_id) : ct.tag_id = tag_id /\ ~ct.is_final
    /\ case_tags' = {r \in case_tags : ~(r.case_id = case_id /\ r.tag_id = tag_id)}
    /\ UNCHANGED <<new_tag_candidates, tag_edit_history, run_pc, run_untagged,
                   rule_based_cases,
                   dictVars, batchVars, aggVars, callVars>>

\* the "add tag" form of a case: a tag selected among the active ones
ManualAdd(case_id, tag_id) ==
    /\ \E t \in 1..Len(get_all_tags(tag_dictionary, TRUE)) :
          get_all_tags(tag_dictionary, TRUE)[t].id = tag_id
    /\ Len(tag_edit_history) < MaxHistory
    /\ case_tags' = upsert_case_tag(tag_dictionary, case_tags, case_id, tag_id,
                                    "user_confirmed", 10000, << >>, TRUE).ct
    /\ tag_edit_history' = record_edit(tag_edit_history, case_id, tag_id, "add")
    /\ UNCHANGED <<new_tag_candidates, run_pc, run_untagged, rule_based_cases,
                   dictVars, batchVars, aggVars, callVars>>

\* the "approve" button of a pending candidate on the dictionary page
ApproveCandidate(id) ==
    LET r == approve_candidate(tag_dictionary, new_tag_candidates, id)
    IN  /\ id \in get_pending_candidates(new_tag_candidates)
        /\ Len(r.td) <= MaxTags
        /\ tag_dictionary' = r.td
        /\ new_tag_candidates' = r.cands
        /\ UNCHANGED <<tag_synonyms, case_tags, tag_edit_history, run_pc,
                       run_untagged, rule_based_cases, batchVars, aggVars, callVars>>

\* the "reject" button of a pending candidate on the dictionary page
RejectCandidate(id) ==
    /\ id \in get_pending_candidates(new_tag_candidates)
    /\ new_tag_candidates' = reject_candidate(new_tag_candidates, id)
    /\ UNCHANGED <<case_tags, tag_edit_history, run_pc, run_untagged,
                   rule_based_cases, dictVars, batchVars, aggVars, callVars>>

NextTag ==
    \/ AutoTagClick
    \/ \E o \in TaggingOutcomes : AutoTagPersist(o)
    \/ \E c \in CaseIds, t \in 1..MaxTags : ConfirmTag(c, t)
    \/ \E c \in CaseIds, t \in 1..MaxTags : RejectTag(c, t)
    \/ \E c \in CaseIds, t \in 1..MaxTags : ManualAdd(c, t)
    \/ \E id \in 1..(MaxCandidates + 1) : ApproveCandidate(id)
    \/ \E id \in 1..(MaxCandidates + 1) : RejectCandidate(id)

SpecTag == InitTag /\ [][NextTag]_vars

-----------------------------------------------------------------------------
(* Properties of the tagging page (SpecTag) *)

\* C3: no two rows of case_tags have the same (case_id, tag_id), and
\* upsert_case_tag on the pair of an existing row does not raise and replaces
\* that row by one with the new source, confidence, raw text and is_final,
\* leaving the number of rows and all other rows as they were.
C3_OneRowPerPair ==
    /\ \A r, q \in case_tags :
          (r.case_id = q.case_id /\ r.tag_id = q.tag_id) => r = q
    /\ \A r \in case_tags, source \in {"ai_proposed", "user_confirmed"},
          confidence \in LlmConfidences, raw \in {<< >>, <<"a", "b", "c">>},
          fin \in BOOLEAN :
          LET u == upsert_case_tag(tag_dictionary, case_tags, r.case_id, r.tag_id,
                                   source, confidence, raw, fin)
          IN  /\ ~u.raised
              /\ Cardinality(u.ct) = Cardinality(case_tags)
              /\ u.ct = (case_tags \ {r}) \cup
                        {[case_id |-> r.case_id, tag_id |-> r.tag_id, source |-> source,
                          confidence |-> confidence, ai_raw_text |-> raw,
                          is_final |-> fin, confirmed_at |-> fin \/ r.confirmed_at]}

\* a confirm has overwritten the AI's row of one tag of a case (only the
\* update on conflict sets confirmed_at) while the case has a row of another tag
C3_Witness ==
    \E r, q \in case_tags :
        /\ r.source = "user_confirmed" /\ r.confirmed_at
        /\ q.case_id = r.case_id /\ q.tag_id # r.tag_id

\* C5 (as claimed): every confirm of a non-final AI-proposed row that carries
\* raw text leaves a synonym row mapping the normalized raw text to the
\* confirmed tag, unless the raw text already resolved to that tag by exact or
\* synonym match.
C5_ConfirmFeedsBack ==
    [][\A r \in case_tags :
          (/\ ~r.is_final
           /\ r.source = "ai_proposed"
           /\ r.ai_raw_text # << >>
           /\ tag_edit_history' =
                 record_edit(tag_edit_history, r.case_id, r.tag_id, "confirm"))
          => LET n == normalize_text(r.ai_raw_text)
                 m == find_matching_tag(r.ai_raw_text, tag_dictionary, tag_synonyms)
             IN  (n # << >> /\ ~(m.tag_id = r.tag_id /\ m.method \in {"exact", "synonym"}))
                 => \E k \in 1..Len(tag_synonyms') :
                        tag_synonyms'[k] = [synonym |-> n, tag_id |-> r.tag_id]]_vars

\* the single proposal of a run's results, with the case it is attributed to
\* (<< >> when the results carry no proposal)
C10_Proposal(results) ==
    IF results = << >> \/ results[1].tags = << >> THEN << >>
    ELSE << [case_id |-> results[1].db_case_id, error |-> results[1].error,
             tag_info |-> results[1].tags[1]] >>

\* what a resolved proposal leaves in case_tags: one row of the pair with the
\* proposal's values, the other pairs' rows as they were
C10_Upserted(ct, ct1, case_id, tag_id, confidence, raw) ==
    /\ {r \in ct1 : ~(r.case_id = case_id /\ r.tag_id = tag_id)}
          = {r \in ct : ~(r.case_id = case_id /\ r.tag_id = tag_id)}
    /\ \E r \in ct1 :
          /\ {q \in ct1 : q.case_id = case_id /\ q.tag_id = tag_id} = {r}
          /\ r.source = "ai_proposed"
          /\ r.confidence = confidence
          /\ r.ai_raw_text = raw

\* what an unresolved new proposal appends to new_tag_candidates
C10_Candidate(td, raw, case_id) ==
    LET similar == suggest_similar_tags(raw, td)
    IN  [proposed_text |-> raw, case_id |-> case_id,
         similar_tag_id |-> IF similar = << >> THEN NoId ELSE similar[1].tag_id,
         similarity_score |-> IF similar = << >> THEN NoScore ELSE similar[1].similarity,
         status |-> "pending"]

\* the outcome of one proposal on the tables `before`, by (resolves, is_new)
C10_Outcome(before, after, case_id, tag_info, raw) ==
    LET m == find_matching_tag(raw, tag_dictionary, tag_synonyms)
    IN  IF m # NoMatch
        THEN /\ C10_Upserted(before.case_tags, after.case_tags, case_id, m.tag_id,
                             tag_info.confidence, raw)
             /\ after.new_tag_candidates = before.new_tag_candidates
        ELSE IF tag_info.is_new
        THEN /\ after.case_tags = before.case_tags
             /\ after.new_tag_candidates =
                   Append(before.new_tag_candidates,
                          C10_Candidate(tag_dictionary, raw, case_id))
        ELSE after = before

\* the tables before the persistence loop
C10_Tables == [case_tags |-> case_tags, new_tag_candidates |-> new_tag_candidates]

\* C10 (as claimed): in a run, every proposal with non-empty tag_text of a
\* non-error result has its outcome by (resolves, is_new): a row of the
\* resolved tag, or a pending candidate, or nothing; error results write nothing.
C10_EveryProposalOutcome ==
    run_pc = "running" =>
        \A o \in TaggingOutcomes :
            LET results == RunResults(run_untagged, o)
                db == RunPersist(run_untagged, o)
                p == C10_Proposal(results)
            IN  IF p # << >> /\ ~p[1].error /\ p[1].tag_info.tag_text # << >>
                THEN C10_Outcome(C10_Tables, db, p[1].case_id, p[1].tag_info,
                                 strip(p[1].tag_info.tag_text))
                ELSE db = C10_Tables

\* one proposal of a non-error result with a case id: nothing for a blank
\* text, else the outcome for the stripped text
C10_Step(before, after, case_id, tag_info) ==
    IF strip(tag_info.tag_text) = << >> THEN after = before
    ELSE C10_Outcome(before, after, case_id, tag_info, strip(tag_info.tag_text))

\* results that carry two proposals for the first case of the run
C10_TwoProposals ==
    {<<p, q>> : p \in {x \in Proposals : x.is_new /\ x.confidence < HIGH_CONFIDENCE_THRESHOLD},
                q \in {x \in Proposals : x.is_new /\ x.confidence >= HIGH_CONFIDENCE_THRESHOLD}}

C10_Returned(tags) ==
    [raised |-> FALSE, message |-> "", cases |-> << [case_index |-> 1, tags |-> tags] >>]

\* C10 (amended): the same for every proposal whose tag_text is non-empty
\* after stripping and whose result is non-error and carries a case id; the
\* raw text stored is the stripped text, the candidate carries the top-1
\* similar tag and its similarity or none when no tag is active; every other
\* result (error, no case id, blank text, no proposal) writes nothing; and
\* two proposals of one result have their outcomes one after the other.
C10_PersistOutcome ==
    run_pc = "running" =>
        /\ \A o \in TaggingOutcomes :
              LET results == RunResults(run_untagged, o)
                  db == RunPersist(run_untagged, o)
                  p == C10_Proposal(results)
              IN  IF p # << >> /\ ~p[1].error /\ p[1].case_id # NoId
                  THEN C10_Step(C10_Tables, db, p[1].case_id, p[1].tag_info)
                  ELSE db = C10_Tables
        /\ \A tags \in C10_TwoProposals :
              LET first == RunPersist(run_untagged, C10_Returned(<<tags[1]>>))
                  both == RunPersist(run_untagged, C10_Returned(tags))
              IN  /\ C10_Step(C10_Tables, first, run_untagged[1], tags[1])
                  /\ C10_Step(first, both, run_untagged[1], tags[2])

\* a run is about to persist while earlier runs have left an AI-proposed row
\* and a pending candidate with a similar tag
C10_Witness ==
    /\ run_pc = "running"
    /\ \E r \in case_tags : r.source = "ai_proposed"
    /\ \E k \in 1..Len(new_tag_candidates) :
          /\ new_tag_candidates[k].status = "pending"
          /\ new_tag_candidates[k].similar_tag_id # NoId

\* C11 (as claimed): while the LLM is invoked for the cases of a run,
\* process_case_rule_based has been evaluated on each of them in that run.
C11_RuleBasedFirst ==
    run_pc = "running" =>
        \A k \in 1..Len(run_untagged) : run_untagged[k] \in rule_based_cases

\* C12 (as claimed): every final row of case_tags has source
\* "user_confirmed", and every row with source "ai_proposed" or "rule_based"
\* is not final.
C12_FinalOnlyByUser ==
    \A r \in case_tags :
        /\ r.is_final => r.source = "user_confirmed"
        /\ r.source \in {"ai_proposed", "rule_based"} => ~r.is_final

\* C13 (as claimed): get_untagged_cases returns exactly the month's cases
\* that have no row in case_tags, so the list a run hands to the LLM holds no
\* case that carries a tag, final or not.
C13_UntaggedIsTagless ==
    get_untagged_cases(case_tags) =
        SelectSeq(RepairCases, LAMBDA id : get_case_tags(case_tags, id) = {})

\* C16 (as claimed): the confidence of every row of case_tags lies in [0, 1].
C16_ConfidenceInRange ==
    \A r \in case_tags : r.confidence >= 0 /\ r.confidence <= 10000

\* C17 (as claimed): in every reachable state the approve button of every
\* pending candidate marks it 'approved' and leaves an active tag whose text is
\* the candidate's proposed text.
C17_ApproveResolves ==
    \A id \in get_pending_candidates(new_tag_candidates) :
        LET r == approve_candidate(tag_dictionary, new_tag_candidates, id)
            tags == get_all_tags(r.td, TRUE)
        IN  /\ ~r.raised
            /\ r.cands[id].status = "approved"
            /\ \E t \in 1..Len(tags) :
                  tags[t].standard_tag = new_tag_candidates[id].proposed_text

\* C27: a final CaseTag row is never removed, made non-final or turned into
\* an 'ai_proposed' row by a later step (confirm, reject, manual add, or the
\* persistence of an auto-tagging run that read its untagged list earlier)
C27_FinalIsKept ==
    [][\A r \in case_tags :
          r.is_final =>
              \E r2 \in case_tags' :
                  /\ r2.case_id = r.case_id
                  /\ r2.tag_id = r.tag_id
                  /\ r2.is_final
                  /\ r2.source = "ai_proposed" => r.source = "ai_proposed"]_vars

\* C29: confirming a CaseTag row changes only its source (to
\* 'user_confirmed'), confidence (to 1.0), is_final (to true) and confirmed_at,
\* and appends one TagEditHistory entry; the row's ai_raw_text and every other
\* row of case_tags stay as they were
C29_ConfirmKeepsRawText ==
    [][\A r \in case_tags :
          (/\ ~r.is_final
           /\ tag_edit_history' =
                 record_edit(tag_edit_history, r.case_id, r.tag_id, "confirm"))
          => \E r2 \in case_tags' :
                /\ r2.case_id = r.case_id /\ r2.tag_id = r.tag_id
                /\ r2.source = "user_confirmed"
                /\ r2.confidence = 10000
                /\ r2.is_final
                /\ r2.ai_raw_text = r.ai_raw_text
                /\ case_tags' \ {r2} = case_tags \ {r}]_vars

\* the "low confidence (needs review)" filter of the review tab: the cases
\* with some tag that is not final and whose confidence (NULL counting as 0)
\* is below the threshold
needs_review(ct) ==
    SelectSeq(RepairCases,
              LAMBDA id : \E t \in get_case_tags(ct, id) :
                              t.confidence < HIGH_CONFIDENCE_THRESHOLD /\ ~t.is_final)

\* C30: every row of case_tags is final exactly when its confidence is at
\* least 0.9, so the needs-review filter selects exactly the cases that have
\* a tag that is not final
C30_FinalIffHighConfidence ==
    /\ \A r \in case_tags : r.is_final <=> r.confidence >= HIGH_CONFIDENCE_THRESHOLD
    /\ needs_review(case_tags) =
          SelectSeq(RepairCases, LAMBDA id : \E t \in case_tags : t.case_id = id /\ ~t.is_final)

\* a case carries an AI row made final by its confidence of exactly 0.9 and a
\* row that is not final, which the filter selects
C30_Witness ==
    \E r, q \in case_tags :
        /\ r.source = "ai_proposed" /\ r.confidence = HIGH_CONFIDENCE_THRESHOLD /\ r.is_final
        /\ q.case_id = r.case_id /\ ~q.is_final
        /\ \E k \in 1..Len(needs_review(case_tags)) : needs_review(case_tags)[k] = r.case_id

-----------------------------------------------------------------------------
(* The aggregation engine (core/aggregator.py): the product x tag matrix *)

AggCases == 2     \* rows of repair_cases
Months == {1, 2}  \* the year_month values, numbered in calendar order

\* the label '(unclassified)' of a missing product group or tag
Unclassified == <<"(", "-", ")">>

\* product_group of a case: NULL or '' (both << >>), a group, or the label itself
ProductGroups == {<< >>, <<"a">>, Unclassified}

\* Python's `x or default` on a text
Or(x, default) == IF x = << >> THEN default ELSE x

\* the rows the JOIN yields for one case: one per row of case_tags of the case
\* ((case_id, tag_id) is UNIQUE; SQL fixes no order among them, tag_id order here)
TaggedRowsOfCase(c, ct, td) ==
    LET ids == SelectSeq([i \in 1..Len(td) |-> i],
                         LAMBDA i : \E r \in ct : r.case_id = c.id /\ r.tag_id = i)
    IN  [j \in 1..Len(ids) |->
            [id |-> c.id, year_month |-> c.year_month,
             product_group |-> c.product_group, tag_id |-> ids[j],
             standard_tag |-> td[ids[j]].standard_tag]]

RECURSIVE TaggedRowsFrom(_, _, _, _, _)
TaggedRowsFrom(rc, ct, td, year_month, k) ==
    IF k > Len(rc) THEN << >>
    ELSE (IF rc[k].year_month = year_month
          THEN TaggedRowsOfCase(rc[k], ct, td) ELSE << >>)
         \o TaggedRowsFrom(rc, ct, td, year_month, k + 1)

\* SELECT rc.*, ct.tag_id, td.standard_tag, ... FROM repair_cases rc JOIN case_tags ct
\* JOIN tag_dictionary td WHERE rc.year_month = ? ORDER BY rc.row_number
get_tagged_cases_by_month(rc, ct, td, year_month) ==
    TaggedRowsFrom(rc, ct, td, year_month, 1)

\* matrix[product][tag] += 1 on a defaultdict of Counters
IncrementCell(matrix, product, tag) ==
    IF product \in DOMAIN matrix
    THEN [matrix EXCEPT ![product] =
             IF tag \in DOMAIN @ THEN [@ EXCEPT ![tag] = @ + 1] ELSE @ @@ (tag :> 1)]
    ELSE matrix @@ (product :> (tag :> 1))

RECURSIVE CountRows(_, _)
\* the loop over `tagged`
CountRows(tagged, matrix) ==
    IF tagged = << >> THEN matrix
    ELSE CountRows(Tail(tagged),
                   IncrementCell(matrix,
                                 Or(Head(tagged).product_group, Unclassified),
                                 Or(Head(tagged).standard_tag, Unclassified)))

RECURSIVE sorted(_)
\* sorted() of a set of texts
sorted(texts) ==
    IF texts = {} THEN << >>
    ELSE LET first == CHOOSE t \in texts : \A u \in texts \ {t} : TextLess(t, u)
         IN  <<first>> \o sorted(texts \ {first})

\* product_tag_matrix with total_cases counting the distinct cases
product_tag_matrix_DistinctCases(rc, ct, td, year_month) ==
    LET tagged == get_tagged_cases_by_month(rc, ct, td, year_month)
        matrix == CountRows(tagged, << >>)
    IN  [matrix |-> matrix,
         products |-> sorted(DOMAIN matrix),
         tags |-> sorted(UNION {DOMAIN matrix[p] : p \in DOMAIN matrix}),
         total_cases |-> Cardinality({tagged[k].id : k \in 1..Len(tagged)})]

\* product_tag_matrix(conn, year_month) on the tables rc, ct, td
product_tag_matrix(rc, ct, td, year_month) ==
    LET tagged == get_tagged_cases_by_month(rc, ct, td, year_month)
        matrix == CountRows(tagged, << >>)
    IN  [matrix |-> matrix,
         products |-> sorted(DOMAIN matrix),
         tags |-> sorted(UNION {DOMAIN matrix[p] : p \in DOMAIN matrix}),
         total_cases |-> Len(tagged)]

\* dictionaries the matrix is computed over: two plain tags; a tag with the
\* empty text (the "add tag" form given only blanks) beside a plain one and
\* beside a tag whose text is the label
MatrixDictionaries ==
    { << [standard_tag |-> <<"a", "b">>, is_active |-> TRUE],
         [standard_tag |-> <<"a", "b", "c">>, is_active |-> FALSE] >>,
      << [standard_tag |-> << >>, is_active |-> TRUE],
         [standard_tag |-> <<"a", "b">>, is_active |-> TRUE] >>,
      << [standard_tag |-> << >>, is_active |-> TRUE],
         [standard_tag |-> Unclassified, is_active |-> TRUE] >> }

\* the imported cases: ids in rowid order, any month and product group
CaseTables ==
    UNION { [1..n -> [year_month : Months, product_group : ProductGroups]] :
            n \in 0..AggCases }

\* the analysis page is opened on a store of imported and tagged cases
InitMatrix ==
    /\ tag_dictionary \in MatrixDictionaries
    /\ tag_synonyms = << >>
    /\ BatchIdle
    /\ \E t \in CaseTables :
          repair_cases = [k \in 1..Len(t) |->
                             [id |-> CaseIdAt(k), year_month |-> t[k].year_month,
                              product_group |-> t[k].product_group]]
    /\ \E links \in SUBSET ((1..AggCases) \X (1..MaxTags)) :
          /\ \A l \in links : l[1] <= Len(repair_cases) /\ l[2] <= Len(tag_dictionary)
          /\ case_tags = {CaseTagRow(CaseIdAt(l[1]), l[2], "user_confirmed", 10000,
                                     << >>, TRUE) : l \in links}
    /\ new_tag_candidates = << >>
    /\ tag_edit_history = << >>
    /\ run_pc = "idle"
    /\ run_untagged = << >>
    /\ rule_based_cases = {}
    /\ matrix_month = 0
    /\ matrix_result = EmptyMatrix
    /\ trend_data = [months |-> << >>, by_product_month |-> << >>, by_tag_month |-> << >>]
    /\ anomalies_pc = "idle"
    /\ anomalies = << >>
    /\ CallIdle

\* the analysis page calls product_tag_matrix(conn, selected_month)
ProductTagMatrix(year_month) ==
    /\ matrix_month' = year_month
    /\ matrix_result' = product_tag_matrix(repair_cases, case_tags, tag_dictionary,
                                           year_month)
    /\ UNCHANGED <<repair_cases, trend_data, anomalies_pc, anomalies, dictVars,
                   batchVars, tagVars, callVars>>

NextMatrix ==
    \/ \E m \in Months : ProductTagMatrix(m)

SpecMatrix == InitMatrix /\ [][NextMatrix]_vars

-----------------------------------------------------------------------------
(* Properties of the product x tag matrix (SpecMatrix) *)

\* a cell of a returned matrix, 0 where the matrix has no such key
Cell(matrix, p, t) ==
    IF p \in DOMAIN matrix /\ t \in DOMAIN matrix[p] THEN matrix[p][t] ELSE 0

\* the keys (p, t) of a returned matrix
CellKeys(matrix) == UNION { {<<p, t>> : t \in DOMAIN matrix[p]} : p \in DOMAIN matrix }

RECURSIVE SumCells(_, _)
SumCells(matrix, keys) ==
    IF keys = {} THEN 0
    ELSE LET k == CHOOSE k \in keys : TRUE
         IN  matrix[k[1]][k[2]] + SumCells(matrix, keys \ {k})

\* the rows of case_tags of the cases of month m
C18_RowsOfMonth(m) ==
    {r \in case_tags : \E k \in 1..Len(repair_cases) :
                          repair_cases[k].id = r.case_id /\ repair_cases[k].year_month = m}

\* the product label of the case of a row of case_tags
C18_ProductOf(r) ==
    LET k == CHOOSE k \in 1..Len(repair_cases) : repair_cases[k].id = r.case_id
    IN  Or(repair_cases[k].product_group, Unclassified)

C18_ProductLabels == {Or(p, Unclassified) : p \in ProductGroups}

\* C18 (as claimed): for every month m, product group p (a missing product group
\* standing under '(unclassified)') and tag t of the dictionary, the cell of p and
\* t (looked up under the key the matrix gives t) is the number of rows of
\* case_tags linking a case of m and p to t.
C18_CellPerTag ==
    \A m \in Months :
        LET r == product_tag_matrix(repair_cases, case_tags, tag_dictionary, m)
        IN  \A p \in C18_ProductLabels, t \in 1..Len(tag_dictionary) :
                Cell(r.matrix, p, Or(tag_dictionary[t].standard_tag, Unclassified)) =
                    Cardinality({row \in C18_RowsOfMonth(m) :
                                    C18_ProductOf(row) = p /\ row.tag_id = t})

\* C18 (amended): for every month m, every cell of product_tag_matrix(m) is the
\* number of rows of case_tags linking a case of m whose product group (missing:
\* '(unclassified)') is the cell's product to a tag whose text (empty:
\* '(unclassified)') is the cell's tag; the matrix has no cell of 0; total_cases
\* is the number of rows of case_tags of the cases of m, and the sum of the cells.
C18_MatrixCounts ==
    \A m \in Months :
        LET r == product_tag_matrix(repair_cases, case_tags, tag_dictionary, m)
            rows == C18_RowsOfMonth(m)
            tagLabels == {Or(tag_dictionary[t].standard_tag, Unclassified) :
                             t \in 1..Len(tag_dictionary)}
        IN  /\ \A p \in C18_ProductLabels, t \in tagLabels :
                  Cell(r.matrix, p, t) =
                      Cardinality({row \in rows :
                          /\ C18_ProductOf(row) = p
                          /\ Or(tag_dictionary[row.tag_id].standard_tag, Unclassified) = t})
            /\ CellKeys(r.matrix) \subseteq C18_ProductLabels \X tagLabels
            /\ \A k \in CellKeys(r.matrix) : r.matrix[k[1]][k[2]] > 0
            /\ r.total_cases = Cardinality(rows)
            /\ r.total_cases = SumCells(r.matrix, CellKeys(r.matrix))

\* the matrix of a month with two cases of one product group, one tagged {A}
\* and one tagged {A, B}, B being the tag with the empty text, has been computed
C18_Witness ==
    /\ matrix_month # 0
    /\ matrix_result.total_cases = 3
    /\ Cell(matrix_result.matrix, <<"a">>, <<"a", "b">>) = 2
    /\ Cell(matrix_result.matrix, <<"a">>, Unclassified) = 1
    /\ tag_dictionary[1].standard_tag = << >>
    /\ Cardinality(C18_RowsOfMonth(matrix_month)) = 3

-----------------------------------------------------------------------------
(* The aggregation engine (core/aggregator.py): detect_anomalies *)

MaxMonths == 5    \* months of a trend
MaxCount == 4     \* the count of a subject in one month

ANOMALY_CONSECUTIVE == 3
ANOMALY_ZSCORE == 2

RECURSIVE Sum(_)
\* sum() of a list of numbers
Sum(values) == IF values = << >> THEN 0 ELSE Head(values) + Sum(Tail(values))

\* values = [month_data.get(m, 0) for m in months]
SeriesValues(month_data, months) ==
    [k \in 1..Len(months) |->
        IF months[k] \in DOMAIN month_data THEN month_data[months[k]] ELSE 0]

\* the "subject" of an anomaly, f"{label}: {subject}"
Subject(label, subject) == [label |-> label, subject |-> subject]

RECURSIVE ConsecutiveFrom_NonStrict(_, _, _, _, _)
\* the scan counting a step that does not decrease as an increase
ConsecutiveFrom_NonStrict(values, months, subject, pos, consecutive) ==
    IF pos > Len(values) THEN << >>
    ELSE LET now == IF values[pos] >= values[pos - 1] THEN consecutive + 1 ELSE 0
         IN  (IF now >= ANOMALY_CONSECUTIVE
              THEN << [type |-> "consecutive_increase", subject |-> subject,
                       months |-> SubSeq(months, pos - now, pos)] >>
              ELSE << >>)
             \o ConsecutiveFrom_NonStrict(values, months, subject, pos + 1, now)

RECURSIVE ConsecutiveFrom(_, _, _, _, _)
\* the scan `for i in range(1, len(values))` from position pos (= i + 1) on, with
\* the counter `consecutive` as the earlier steps left it; an anomaly is the
\* record of type, subject and months (detail, a display string, is not kept)
ConsecutiveFrom(values, months, subject, pos, consecutive) ==
    IF pos > Len(values) THEN << >>
    ELSE LET now == IF values[pos] > values[pos - 1] THEN consecutive + 1 ELSE 0
         IN  (IF now >= ANOMALY_CONSECUTIVE
              THEN << [type |-> "consecutive_increase", subject |-> subject,
                       months |-> SubSeq(months, pos - now, pos)] >>
              ELSE << >>)
             \o ConsecutiveFrom(values, months, subject, pos + 1, now)

\* statistics.mean(data), as the fraction num / den
mean(data) == [num |-> Sum(data), den |-> Len(data)]

\* statistics.stdev(data) squared: the sum of the squared deviations from the
\* mean over n - 1, as a fraction (n * x - sum is n times the deviation of x)
stdev2(data) ==
    LET n == Len(data)
    IN  [num |-> Sum([k \in 1..n |-> (n * data[k] - Sum(data)) * (n * data[k] - Sum(data))]),
         den |-> n * n * (n - 1)]

\* (last - mean) / stdev >= ANOMALY_ZSCORE for stdev > 0, with both sides squared
\* (the quotient of the floats is on the same side of 2.0 on these series)
ZscoreReached(last, m, s2) ==
    /\ last * m.den - m.num >= 0
    /\ (last * m.den - m.num) * (last * m.den - m.num) * s2.den
           >= ANOMALY_ZSCORE * ANOMALY_ZSCORE * s2.num * m.den * m.den

\* the spike test with mean and stdev taken over all the values
SpikeAnomalies_AllValues(values, months, subject) ==
    IF Len(values) >= 3
    THEN LET m == mean(values)
             s2 == stdev2(values)
             last == values[Len(values)]
         IN  IF s2.num > 0 /\ last > 0 /\ ZscoreReached(last, m, s2)
             THEN << [type |-> "spike", subject |-> subject,
                      months |-> <<months[Len(months)]>>] >>
             ELSE << >>
    ELSE << >>

\* the spike test of one series
SpikeAnomalies(values, months, subject) ==
    IF Len(values) >= 3
    THEN LET m == mean(SubSeq(values, 1, Len(values) - 1))
             s2 == stdev2(SubSeq(values, 1, Len(values) - 1))
             last == values[Len(values)]
         IN  IF s2.num > 0 /\ last > 0 /\ ZscoreReached(last, m, s2)
             THEN << [type |-> "spike", subject |-> subject,
                      months |-> <<months[Len(months)]>>] >>
             ELSE << >>
    ELSE << >>

RECURSIVE SeriesAnomalies(_, _, _, _)
\* the loop over data_by_month.items() (a dict, here the list of its items in
\* insertion order) from item k on
SeriesAnomalies(label, data_by_month, months, k) ==
    IF k > Len(data_by_month) THEN << >>
    ELSE LET values == SeriesValues(data_by_month[k].month_data, months)
             subject == Subject(label, data_by_month[k].subject)
         IN  ConsecutiveFrom(values, months, subject, 2, 0)
             \o SpikeAnomalies(values, months, subject)
             \o SeriesAnomalies(label, data_by_month, months, k + 1)

\* detect_anomalies(trend_data)
detect_anomalies(td) ==
    SeriesAnomalies("product", td.by_product_month, td.months, 1)
    \o SeriesAnomalies("tag", td.by_tag_month, td.months, 1)

\* the counts of one subject over the months 1..n: a month is absent or holds a
\* count of at least 1, as multi_month_trend writes them
MonthData(n) == UNION { [present -> 1..MaxCount] : present \in SUBSET (1..n) }

\* series beyond the bound on the counts
LongSeries ==
    { <<2, 3, 5, 8>>, <<5, 3, 4, 2>>, <<10, 11, 9, 50>>, <<10, 10, 10, 50>>,
      <<10, 10, 10, 10>>, <<10, 10, 10>> }

\* the other dict of trend_data holds one subject that grows by one each month
Ramp(n) == [m \in 1..n |-> m]

\* a trend of n months with the series month_data under "product" or under "tag"
Trend(n, month_data, side) ==
    LET varied == << [subject |-> <<"a">>, month_data |-> month_data] >>
        ramp == << [subject |-> <<"b">>, month_data |-> Ramp(n)] >>
    IN  [months |-> [k \in 1..n |-> k],
         by_product_month |-> IF side = "product" THEN varied ELSE ramp,
         by_tag_month |-> IF side = "product" THEN ramp ELSE varied]

\* the trend tab has computed trend = multi_month_trend(conn, selected_months)
InitAnomaly ==
    /\ tag_dictionary = << >>
    /\ tag_synonyms = << >>
    /\ BatchIdle
    /\ TagIdle
    /\ repair_cases = << >>
    /\ matrix_month = 0
    /\ matrix_result = EmptyMatrix
    /\ \E side \in {"product", "tag"} :
          \/ \E n \in 0..MaxMonths : \E md \in MonthData(n) : trend_data = Trend(n, md, side)
          \/ \E md \in LongSeries : trend_data = Trend(Len(md), md, side)
    /\ anomalies_pc = "idle"
    /\ anomalies = << >>
    /\ CallIdle

\* the trend tab calls detect_anomalies(trend)
DetectAnomalies ==
    /\ anomalies_pc = "idle"
    /\ anomalies_pc' = "done"
    /\ anomalies' = detect_anomalies(trend_data)
    /\ UNCHANGED <<repair_cases, matrix_month, matrix_result, trend_data, dictVars,
                   batchVars, tagVars, callVars>>

NextAnomaly ==
    \/ DetectAnomalies

SpecAnomaly == InitAnomaly /\ [][NextAnomaly]_vars

-----------------------------------------------------------------------------
(* Properties of detect_anomalies (SpecAnomaly) *)

\* the series of trend_data: label, subject and values
AllSeries(td) ==
    {[label |-> "product", subject |-> td.by_product_month[k].subject,
      values |-> SeriesValues(td.by_product_month[k].month_data, td.months)] :
        k \in 1..Len(td.by_product_month)}
    \cup
    {[label |-> "tag", subject |-> td.by_tag_month[k].subject,
      values |-> SeriesValues(td.by_tag_month[k].month_data, td.months)] :
        k \in 1..Len(td.by_tag_month)}

\* the anomalies of one type and subject among `found`, in the order emitted
AnomaliesOf(found, type, subject) ==
    SelectSeq(found, LAMBDA a : a.type = type /\ a.subject = subject)

\* the length of the run of strict step-over-step increases ending at position pos
RunEndingAt(values, pos) ==
    CHOOSE k \in 0..(pos - 1) :
        /\ \A j \in (pos - k + 1)..pos : values[j] > values[j - 1]
        /\ k < pos - 1 => ~(values[pos - k] > values[pos - k - 1])

\* the positions, in order, at which a run of at least 3 increases ends
C19_Positions(values) ==
    SelectSeq([pos \in 1..Len(values) |-> pos], LAMBDA pos : RunEndingAt(values, pos) >= 3)

\* C19: for every product-keyed and tag-keyed series (an absent month counting
\* as 0) the consecutive_increase anomalies are, in order, one for each position
\* at which the run of strict increases ending there has length k >= 3, over the
\* k + 1 months of that run; [2,3,5,8] yields exactly one anomaly over all four
\* months, [5,3,4,2] none, and a run of 4 increases yields 2 overlapping ones.
C19_ConsecutiveIncrease ==
    \A s \in AllSeries(trend_data) :
        LET found == AnomaliesOf(detect_anomalies(trend_data), "consecutive_increase",
                                 Subject(s.label, s.subject))
            ends == C19_Positions(s.values)
        IN  /\ Len(found) = Len(ends)
            /\ \A i \in 1..Len(ends) :
                  found[i].months =
                      SubSeq(trend_data.months,
                             ends[i] - RunEndingAt(s.values, ends[i]), ends[i])
            /\ s.values = <<2, 3, 5, 8>> =>
                  Len(found) = 1 /\ found[1].months = <<1, 2, 3, 4>>
            /\ s.values = <<5, 3, 4, 2>> => found = << >>
            /\ s.values = <<1, 2, 3, 4, 4>> => Len(found) = 1
            /\ s.values = <<0, 1, 2, 3, 4>> => Len(found) = 2

\* detect_anomalies has returned two overlapping consecutive_increase anomalies
\* for a series that has an absent month (counted 0) and rises four times
C19_Witness ==
    /\ anomalies_pc = "done"
    /\ \E s \in AllSeries(trend_data) :
          /\ s.subject = <<"a">>
          /\ s.values = <<0, 1, 2, 3, 4>>
          /\ LET found == AnomaliesOf(anomalies, "consecutive_increase",
                                      Subject(s.label, s.subject))
             IN  /\ Len(found) = 2
                 /\ found[1].months = <<1, 2, 3, 4>>
                 /\ found[2].months = <<1, 2, 3, 4, 5>>

\* n * (n * sum of squares - square of the sum) of data: n * n * (n - 1) times the
\* sample variance of the n values
C20_ScaledVariance(data) ==
    Len(data) * (Len(data) * Sum([k \in 1..Len(data) |-> data[k] * data[k]])
                 - Sum(data) * Sum(data))

\* s > 0, last > 0 and last - mean >= 2 * s for the mean and the sample standard
\* deviation s of all values but the last
C20_SpikeCondition(values) ==
    LET data == SubSeq(values, 1, Len(values) - 1)
        n == Len(data)
        last == values[Len(values)]
        excess == n * last - Sum(data)     \* n * (last - mean)
    IN  /\ C20_ScaledVariance(data) > 0
        /\ last > 0
        /\ excess >= 0
        /\ excess * excess * (n - 1) >= 4 * C20_ScaledVariance(data)

\* C20: for every series with at least 3 points detect_anomalies emits exactly
\* one spike, over the last month only, if the sample standard deviation s of
\* all values but the last is > 0, the last value is > 0 and last - mean >= 2 * s,
\* and none otherwise; it emits none for a series with fewer than 3 points, with
\* s = 0 ([10,10,10,x]) or with last = 0.
C20_Spike ==
    \A s \in AllSeries(trend_data) :
        LET found == AnomaliesOf(detect_anomalies(trend_data), "spike",
                                 Subject(s.label, s.subject))
            n == Len(s.values)
        IN  /\ n >= 3 /\ C20_SpikeCondition(s.values) =>
                  /\ Len(found) = 1
                  /\ found[1].months = <<trend_data.months[n]>>
            /\ ~(n >= 3 /\ C20_SpikeCondition(s.values)) => found = << >>
            /\ n >= 3 /\ s.values[n] = 0 => found = << >>
            /\ s.values = <<10, 11, 9, 50>> => Len(found) = 1
            /\ n = 4 /\ SubSeq(s.values, 1, 3) = <<10, 10, 10>> => found = << >>

\* detect_anomalies has returned the spike of a series whose last value is
\* exactly 2 standard deviations above the mean of the others
C20_Witness ==
    /\ anomalies_pc = "done"
    /\ \E s \in AllSeries(trend_data) :
          /\ s.subject = <<"a">>
          /\ s.values = <<0, 1, 2, 3>>
          /\ AnomaliesOf(anomalies, "spike", Subject(s.label, s.subject)) =
                << [type |-> "spike", subject |-> Subject(s.label, s.subject),
                    months |-> <<4>>] >>

-----------------------------------------------------------------------------
(* The aggregation engine (core/aggregator.py): month_over_month and
   get_cost_comparison *)

WideCases == 7    \* cases of the stores with many (product, tag) pairs
TopN == 10        \* increases[:10]

\* a missing total_cost (NULL)
NoCost == -1

\* collections.Counter of a list of keys
Counter(keys) ==
    [k \in {keys[i] : i \in 1..Len(keys)} |->
        Cardinality({i \in 1..Len(keys) : keys[i] = k})]

\* counter[key]: 0 for a key the Counter does not hold
CountOf(counter, key) == IF key \in DOMAIN counter THEN counter[key] ELSE 0

\* a / b * 100 as the fraction num / den; a zero divisor raises ZeroDivisionError
Percent(a, b) ==
    IF b = 0 THEN [raised |-> TRUE, num |-> 0, den |-> 1]
    ELSE [raised |-> FALSE, num |-> a * 100, den |-> b]

\* delta_pct computed without the test of the divisor
delta_pct_Unguarded(delta, previous) == Percent(delta, previous)

\* (delta / previous * 100) if previous else 0
delta_pct(delta, previous) ==
    IF previous # 0 THEN Percent(delta, previous)
    ELSE [raised |-> FALSE, num |-> 0, den |-> 1]

\* (product, tag) keys in the order of their texts
KeyLess(a, b) == IF a[1] # b[1] THEN TextLess(a[1], b[1]) ELSE TextLess(a[2], b[2])

RECURSIVE SortedKeys(_)
SortedKeys(keys) ==
    IF keys = {} THEN << >>
    ELSE LET first == CHOOSE k \in keys : \A q \in keys \ {k} : KeyLess(k, q)
         IN  <<first>> \o SortedKeys(keys \ {first})

Reverse(seq) == [i \in 1..Len(seq) |-> seq[Len(seq) + 1 - i]]

\* the orders in which `for key in all_keys` may visit a set: Python fixes none;
\* the rotations of the keys in text order and their reversals are tried (for up
\* to 3 keys these are all the orders)
IterationOrders(keys) ==
    LET base == SortedKeys(keys)
        n == Len(base)
        rotations == {[i \in 1..n |-> base[((i + r - 1) % n) + 1]] : r \in 0..(n - 1)}
    IN  IF n = 0 THEN {<< >>} ELSE rotations \cup {Reverse(o) : o \in rotations}

RECURSIVE SortByDeltaDesc(_)
\* increases.sort(key=lambda x: x[2], reverse=True): stable, equal deltas keep their order
SortByDeltaDesc(increases) ==
    IF increases = << >> THEN << >>
    ELSE LET top == CHOOSE d \in {increases[i][3] : i \in 1..Len(increases)} :
                        \A i \in 1..Len(increases) : increases[i][3] <= d
             at == CHOOSE i \in 1..Len(increases) :
                        /\ increases[i][3] = top
                        /\ \A j \in 1..(i - 1) : increases[j][3] # top
         IN  <<increases[at]>>
             \o SortByDeltaDesc(SubSeq(increases, 1, at - 1)
                                \o SubSeq(increases, at + 1, Len(increases)))

\* the loop over all_keys in the order `order`, collecting the positive deltas
Increases(order, cur_cross, prev_cross) ==
    LET all == [i \in 1..Len(order) |->
                   <<order[i][1], order[i][2],
                     CountOf(cur_cross, order[i]) - CountOf(prev_cross, order[i])>>]
    IN  SelectSeq(all, LAMBDA x : x[3] > 0)

\* by_product / by_tag: current, previous and delta of every key of either Counter
ByKey(cur, prev) ==
    [k \in DOMAIN cur \cup DOMAIN prev |->
        [current |-> CountOf(cur, k), previous |-> CountOf(prev, k),
         delta |-> CountOf(cur, k) - CountOf(prev, k)]]

\* all_keys of month_over_month(current_month, previous_month)
CrossKeys(rc, ct, td, current_month, previous_month) ==
    LET cur_data == get_tagged_cases_by_month(rc, ct, td, current_month)
        prev_data == get_tagged_cases_by_month(rc, ct, td, previous_month)
    IN  {<<cur_data[i].product_group, cur_data[i].standard_tag>> : i \in 1..Len(cur_data)}
        \cup
        {<<prev_data[i].product_group, prev_data[i].standard_tag>> : i \in 1..Len(prev_data)}

\* month_over_month keeping all the increases
month_over_month_Uncut(rc, ct, td, current_month, previous_month, order) ==
    LET cur_data == get_tagged_cases_by_month(rc, ct, td, current_month)
        prev_data == get_tagged_cases_by_month(rc, ct, td, previous_month)
        cur_cross == Counter([i \in 1..Len(cur_data) |->
                        <<cur_data[i].product_group, cur_data[i].standard_tag>>])
        prev_cross == Counter([i \in 1..Len(prev_data) |->
                        <<prev_data[i].product_group, prev_data[i].standard_tag>>])
        increases == SortByDeltaDesc(Increases(order, cur_cross, prev_cross))
        pct == delta_pct(Len(cur_data) - Len(prev_data), Len(prev_data))
    IN  [raised |-> pct.raised,
         current_total |-> Len(cur_data),
         previous_total |-> Len(prev_data),
         delta |-> Len(cur_data) - Len(prev_data),
         delta_pct |-> [num |-> pct.num, den |-> pct.den],
         by_product |-> ByKey(Counter([i \in 1..Len(cur_data) |-> cur_data[i].product_group]),
                              Counter([i \in 1..Len(prev_data) |-> prev_data[i].product_group])),
         by_tag |-> ByKey(Counter([i \in 1..Len(cur_data) |-> cur_data[i].standard_tag]),
                          Counter([i \in 1..Len(prev_data) |-> prev_data[i].standard_tag])),
         top_increases |-> increases]

\* month_over_month(conn, current_month, previous_month) on the tables rc, ct, td,
\* all_keys being visited in the order `order`; the keys are the stored values
\* (the defaults of r.get never apply: the rows hold both columns)
month_over_month(rc, ct, td, current_month, previous_month, order) ==
    LET cur_data == get_tagged_cases_by_month(rc, ct, td, current_month)
        prev_data == get_tagged_cases_by_month(rc, ct, td, previous_month)
        cur_cross == Counter([i \in 1..Len(cur_data) |->
                        <<cur_data[i].product_group, cur_data[i].standard_tag>>])
        prev_cross == Counter([i \in 1..Len(prev_data) |->
                        <<prev_data[i].product_group, prev_data[i].standard_tag>>])
        increases == SortByDeltaDesc(Increases(order, cur_cross, prev_cross))
        pct == delta_pct(Len(cur_data) - Len(prev_data), Len(prev_data))
    IN  [raised |-> pct.raised,
         current_total |-> Len(cur_data),
         previous_total |-> Len(prev_data),
         delta |-> Len(cur_data) - Len(prev_data),
         delta_pct |-> [num |-> pct.num, den |-> pct.den],
         by_product |-> ByKey(Counter([i \in 1..Len(cur_data) |-> cur_data[i].product_group]),
                              Counter([i \in 1..Len(prev_data) |-> prev_data[i].product_group])),
         by_tag |-> ByKey(Counter([i \in 1..Len(cur_data) |-> cur_data[i].standard_tag]),
                          Counter([i \in 1..Len(prev_data) |-> prev_data[i].standard_tag])),
         top_increases |-> SubSeq(increases, 1, Min(TopN, Len(increases)))]

\* SELECT total_cost FROM uploaded_files WHERE year_month = ? ... fetchone(), and
\* `row["total_cost"] if row and row["total_cost"] else 0`
CostOrZero(files, year_month) ==
    LET rows == SelectSeq(files, LAMBDA f : f.year_month = year_month)
    IN  IF rows # << >> /\ rows[1].total_cost # NoCost /\ rows[1].total_cost # 0
        THEN rows[1].total_cost ELSE 0

\* get_cost_comparison(conn, current_month, previous_month)
get_cost_comparison(files, current_month, previous_month) ==
    LET cur_cost == CostOrZero(files, current_month)
        prev_cost == CostOrZero(files, previous_month)
        pct == delta_pct(cur_cost - prev_cost, prev_cost)
    IN  [raised |-> pct.raised, current_cost |-> cur_cost, previous_cost |-> prev_cost,
         delta |-> cur_cost - prev_cost, delta_pct |-> [num |-> pct.num, den |-> pct.den]]

\* the product groups of the stores with many (product, tag) pairs
WideGroups == << <<"a">>, <<"b">>, <<"c">>, <<"A">>, <<"B">>, <<"C">> >>

\* the dictionary the months are compared over
CompareDictionary ==
    << [standard_tag |-> <<"a", "b">>, is_active |-> TRUE],
       [standard_tag |-> <<"a", "b", "c">>, is_active |-> TRUE] >>

\* the stores compared: every table of up to AggCases cases with every set of
\* links to the two tags, and stores of WideCases cases over 6 product groups
\* (the last case shares its group with the first), the first `cur` of them in
\* month 2 and the others in month 1, all tagged with tag 1 and the first `both`
\* of them with tag 2 as well
\* uploaded_files: one file per month, its total_cost set, 0 or NULL
CostTables ==
    { << [year_month |-> 1, total_cost |-> c[1]], [year_month |-> 2, total_cost |-> c[2]] >> :
        c \in { <<100, 250>>, <<NoCost, 100>>, <<0, 250>>, <<100, 100>> } }

CompareStores ==
    { [rc |-> [k \in 1..Len(t) |->
                  [id |-> CaseIdAt(k), year_month |-> t[k].year_month,
                   product_group |-> t[k].product_group]],
       links |-> l, files |-> f] :
        t \in CaseTables,
        l \in SUBSET ((1..AggCases) \X (1..2)),
        f \in CostTables }
    \cup
    { [rc |-> [k \in 1..WideCases |->
                  [id |-> CaseIdAt(k),
                   year_month |-> IF k <= cur THEN 2 ELSE 1,
                   product_group |-> WideGroups[((k - 1) % Len(WideGroups)) + 1]]],
       links |-> {<<k, 1>> : k \in 1..WideCases} \cup {<<k, 2>> : k \in 1..both},
       files |-> << [year_month |-> 1, total_cost |-> 100],
                    [year_month |-> 2, total_cost |-> 250] >>] :
        cur \in 0..WideCases, both \in 0..WideCases }

\* the analysis page is opened on a store of two uploaded months
InitCompare ==
    /\ tag_dictionary = CompareDictionary
    /\ tag_synonyms = << >>
    /\ BatchIdle
    /\ \E st \in CompareStores :
          /\ \A l \in st.links : l[1] <= Len(st.rc)
          /\ repair_cases = st.rc
          /\ case_tags = {CaseTagRow(CaseIdAt(l[1]), l[2], "user_confirmed", 10000,
                                     << >>, TRUE) : l \in st.links}
          /\ uploaded_files = st.files
    /\ new_tag_candidates = << >>
    /\ tag_edit_history = << >>
    /\ run_pc = "idle"
    /\ run_untagged = << >>
    /\ rule_based_cases = {}
    /\ matrix_month = 0
    /\ matrix_result = EmptyMatrix
    /\ trend_data = [months |-> << >>, by_product_month |-> << >>, by_tag_month |-> << >>]
    /\ anomalies_pc = "idle"
    /\ anomalies = << >>
    /\ last_call = << >>
    /\ last_return = << >>

\* SELECT DISTINCT year_month FROM uploaded_files, as a set
get_uploaded_months(files) == {files[i].year_month : i \in 1..Len(files)}

\* the comparison tab with `current` and `previous` selected: get_cost_comparison,
\* then month_over_month, all_keys being visited in any of IterationOrders (one
\* run of the page is followed: a rerun computes from the same tables)
CompareMonths(current, previous) ==
    /\ last_call = << >>
    /\ Cardinality(get_uploaded_months(uploaded_files)) >= 2
    /\ current \in get_uploaded_months(uploaded_files)
    /\ previous \in get_uploaded_months(uploaded_files) \ {current}
    /\ last_call' = <<"compare", current, previous>>
    /\ \E order \in IterationOrders(CrossKeys(repair_cases, case_tags, tag_dictionary,
                                              current, previous)) :
          last_return' =
              [cost_cmp |-> get_cost_comparison(uploaded_files, current, previous),
               mom |-> month_over_month(repair_cases, case_tags, tag_dictionary,
                                        current, previous, order)]
    /\ UNCHANGED <<uploaded_files, dictVars, batchVars, tagVars, aggVars>>

NextCompare ==
    \/ \E current \in Months, previous \in Months : CompareMonths(current, previous)

SpecCompare == InitCompare /\ [][NextCompare]_vars

-----------------------------------------------------------------------------
(* Properties of the month comparison (SpecCompare) *)

\* the rows of case_tags linking a case of month m and product group p to the
\* tag of text t
PairRows(m, p, t) ==
    {r \in case_tags :
        /\ tag_dictionary[r.tag_id].standard_tag = t
        /\ \E k \in 1..Len(repair_cases) :
              /\ repair_cases[k].id = r.case_id
              /\ repair_cases[k].year_month = m
              /\ repair_cases[k].product_group = p}

\* current count - previous count of the pair (p, t)
PairDelta(current, previous, p, t) ==
    Cardinality(PairRows(current, p, t)) - Cardinality(PairRows(previous, p, t))

\* the (product, tag) pairs of the store
AllPairs ==
    {repair_cases[k].product_group : k \in 1..Len(repair_cases)}
    \X {tag_dictionary[t].standard_tag : t \in 1..Len(tag_dictionary)}

\* C21: top_increases of month_over_month(current, previous) holds only triples
\* (product, tag, d) with d = current count - previous count > 0 of that pair,
\* each pair once, in non-increasing order of d; its length is min(10, number of
\* pairs with a positive delta), and no pair left out has a larger delta than a
\* pair included.
C21_TopIncreases ==
    last_call # << >> =>
        LET current == last_call[2]
            previous == last_call[3]
            top == last_return.mom.top_increases
            positive == {k \in AllPairs : PairDelta(current, previous, k[1], k[2]) > 0}
            included == {<<top[i][1], top[i][2]>> : i \in 1..Len(top)}
        IN  /\ \A i \in 1..Len(top) :
                  /\ top[i][3] = PairDelta(current, previous, top[i][1], top[i][2])
                  /\ top[i][3] > 0
            /\ \A i, j \in 1..Len(top) :
                  /\ i < j => top[i][3] >= top[j][3]
                  /\ i # j => <<top[i][1], top[i][2]>> # <<top[j][1], top[j][2]>>
            /\ Len(top) = Min(10, Cardinality(positive))
            /\ \A out \in positive \ included, in \in included :
                  PairDelta(current, previous, out[1], out[2])
                      <= PairDelta(current, previous, in[1], in[2])

\* a comparison has returned 10 increases, of 2 and of 1, out of more than 10
\* pairs with a positive delta
C21_Witness ==
    /\ last_call # << >>
    /\ Len(last_return.mom.top_increases) = 10
    /\ last_return.mom.top_increases[1][3] = 2
    /\ last_return.mom.top_increases[10][3] = 1
    /\ Cardinality({k \in AllPairs :
                       PairDelta(last_call[2], last_call[3], k[1], k[2]) > 0}) > 10

\* the recorded cost of a month: absent, NULL and 0 all count as 0
C22_RecordedCost(m) ==
    IF \E i \in 1..Len(uploaded_files) :
          uploaded_files[i].year_month = m /\ uploaded_files[i].total_cost > 0
    THEN (CHOOSE f \in {uploaded_files[i] : i \in 1..Len(uploaded_files)} :
              f.year_month = m /\ f.total_cost > 0).total_cost
    ELSE 0

\* a returned comparison `r` of `current` against `previous` did not raise, has
\* delta = current - previous, and delta_pct = 0 for previous = 0 and else
\* delta / previous * 100
C22_Percent(r, current, previous, delta, pct) ==
    /\ ~r.raised
    /\ delta = current - previous
    /\ previous = 0 => pct.num = 0
    /\ previous # 0 => pct.num * previous = delta * 100 * pct.den

\* C22: month_over_month and get_cost_comparison never raise on a zero
\* denominator: with the previous month's total (tag rows, respectively recorded
\* cost) 0 or absent delta_pct is 0, else delta_pct = delta / previous * 100 with
\* delta = current - previous; this for the comparison returned and for
\* get_cost_comparison on every pair of months, uploaded or not.
C22_NoZeroDivision ==
    /\ last_call # << >> =>
          LET mom == last_return.mom
              cost == last_return.cost_cmp
          IN  /\ mom.current_total = Cardinality(C18_RowsOfMonth(last_call[2]))
              /\ mom.previous_total = Cardinality(C18_RowsOfMonth(last_call[3]))
              /\ C22_Percent(mom, mom.current_total, mom.previous_total,
                             mom.delta, mom.delta_pct)
              /\ cost.current_cost = C22_RecordedCost(last_call[2])
              /\ cost.previous_cost = C22_RecordedCost(last_call[3])
              /\ C22_Percent(cost, cost.current_cost, cost.previous_cost,
                             cost.delta, cost.delta_pct)
    /\ \A current \in 0..3, previous \in 0..3 :
          LET cost == get_cost_comparison(uploaded_files, current, previous)
              mom == month_over_month(repair_cases, case_tags, tag_dictionary,
                                      current, previous, << >>)
          IN  /\ cost.previous_cost = C22_RecordedCost(previous)
              /\ C22_Percent(cost, C22_RecordedCost(current), C22_RecordedCost(previous),
                             cost.delta, cost.delta_pct)
              /\ C22_Percent(mom, Cardinality(C18_RowsOfMonth(current)),
                             Cardinality(C18_RowsOfMonth(previous)),
                             mom.delta, mom.delta_pct)

\* a comparison has returned with no tag row and no recorded cost (NULL) in the
\* previous month and some in the current month
C22_Witness ==
    /\ last_call # << >>
    /\ last_return.mom.previous_total = 0
    /\ last_return.mom.delta > 0
    /\ last_return.mom.delta_pct.num = 0
    /\ \E i \in 1..Len(uploaded_files) :
          uploaded_files[i].year_month = last_call[3] /\ uploaded_files[i].total_cost = NoCost
    /\ last_return.cost_cmp.delta > 0
    /\ last_return.cost_cmp.delta_pct.num = 0

-----------------------------------------------------------------------------
(* The aggregation engine (core/aggregator.py): get_special_cases *)

SPECIAL_CASE_THRESHOLD == 5

\* the two markers, two syllables each
JUDGMENT_EXCHANGE == <<"ga", "ga">>
JUDGMENT_COMPLAINT == <<"na", "na">>

\* judgment_type of a case: NULL (<< >>), a marker, both markers, one syllable of
\* a marker, a marker inside a longer text
JudgmentTypes ==
    { << >>, JUDGMENT_EXCHANGE, JUDGMENT_COMPLAINT,
      JUDGMENT_EXCHANGE \o <<"-">> \o JUDGMENT_COMPLAINT,
      <<"ga">>, <<"a">> \o JUDGMENT_EXCHANGE }

\* the thresholds get_special_cases is called with
Thresholds == 1..(SPECIAL_CASE_THRESHOLD + 1)

\* SELECT * FROM repair_cases WHERE year_month = ? ORDER BY row_number
get_cases_by_month(rc, year_month) == SelectSeq(rc, LAMBDA c : c.year_month = year_month)

RECURSIVE GroupByProduct(_, _, _)
\* the loop appending to a defaultdict(list) the cases whose judgment type
\* contains `marker`, under `product_group or '(unclassified)'`
GroupByProduct(cases, marker, by_product) ==
    IF cases = << >> THEN by_product
    ELSE LET case == Head(cases)
             jtype == Or(case.judgment_type, << >>)
             product == Or(case.product_group, Unclassified)
         IN  GroupByProduct(Tail(cases), marker,
                 IF Contains(marker, jtype)
                 THEN IF product \in DOMAIN by_product
                      THEN [by_product EXCEPT ![product] = Append(@, case)]
                      ELSE by_product @@ (product :> <<case>>)
                 ELSE by_product)

\* {p: cs for p, cs in by_product.items() if len(cs) >= threshold}
AtLeast(by_product, threshold) ==
    [p \in {q \in DOMAIN by_product : Len(by_product[q]) >= threshold} |-> by_product[p]]

\* the filter keeping the products with more cases than the threshold
AtLeast_Above(by_product, threshold) ==
    [p \in {q \in DOMAIN by_product : Len(by_product[q]) > threshold} |-> by_product[p]]

\* get_special_cases with the filter AtLeast_Above
get_special_cases_Above(rc, year_month, threshold) ==
    LET cases == get_cases_by_month(rc, year_month)
    IN  [exchange |-> AtLeast_Above(GroupByProduct(cases, JUDGMENT_EXCHANGE, << >>), threshold),
         complaint |-> AtLeast_Above(GroupByProduct(cases, JUDGMENT_COMPLAINT, << >>), threshold)]

\* get_special_cases(conn, year_month, threshold) on the table rc
get_special_cases(rc, year_month, threshold) ==
    LET cases == get_cases_by_month(rc, year_month)
    IN  [exchange |-> AtLeast(GroupByProduct(cases, JUDGMENT_EXCHANGE, << >>), threshold),
         complaint |-> AtLeast(GroupByProduct(cases, JUDGMENT_COMPLAINT, << >>), threshold)]

\* the tables of imported cases: every table of up to AggCases cases, and tables
\* of n cases of one product group in month 1 whose judgment type holds the
\* exchange marker, the first `both` of them the complaint marker as well
SpecialTables ==
    UNION { [1..n -> [year_month : Months, product_group : ProductGroups,
                      judgment_type : JudgmentTypes]] : n \in 0..AggCases }
    \cup
    { [k \in 1..n |->
          [year_month |-> 1, product_group |-> <<"a">>,
           judgment_type |-> IF k <= both
                             THEN JUDGMENT_EXCHANGE \o <<"-">> \o JUDGMENT_COMPLAINT
                             ELSE JUDGMENT_EXCHANGE]] :
        n \in (SPECIAL_CASE_THRESHOLD - 1)..(SPECIAL_CASE_THRESHOLD + 1),
        both \in 0..(SPECIAL_CASE_THRESHOLD + 1) }

\* the analysis page is opened on a store of imported cases
InitSpecial ==
    /\ tag_dictionary = << >>
    /\ tag_synonyms = << >>
    /\ BatchIdle
    /\ TagIdle
    /\ \E t \in SpecialTables :
          repair_cases = [k \in 1..Len(t) |->
                             [id |-> CaseIdAt(k), year_month |-> t[k].year_month,
                              product_group |-> t[k].product_group,
                              judgment_type |-> t[k].judgment_type]]
    /\ matrix_month = 0
    /\ matrix_result = EmptyMatrix
    /\ trend_data = [months |-> << >>, by_product_month |-> << >>, by_tag_month |-> << >>]
    /\ anomalies_pc = "idle"
    /\ anomalies = << >>
    /\ CallIdle

\* get_special_cases(conn, year_month, threshold) is called (the special-cases
\* tab, the report generator)
GetSpecialCases(year_month, threshold) ==
    /\ last_call = << >>
    /\ last_call' = <<"get_special_cases", year_month, threshold>>
    /\ last_return' = get_special_cases(repair_cases, year_month, threshold)
    /\ UNCHANGED <<uploaded_files, dictVars, batchVars, tagVars, aggVars>>

NextSpecial ==
    \/ \E m \in Months, threshold \in Thresholds : GetSpecialCases(m, threshold)

SpecSpecial == InitSpecial /\ [][NextSpecial]_vars

-----------------------------------------------------------------------------
(* Properties of get_special_cases (SpecSpecial) *)

\* the cases of month m and product p (a case without product group standing
\* under '(unclassified)') whose judgment type contains `marker`
MarkedCases(m, p, marker) ==
    {k \in 1..Len(repair_cases) :
        /\ repair_cases[k].year_month = m
        /\ Or(repair_cases[k].product_group, Unclassified) = p
        /\ Contains(marker, repair_cases[k].judgment_type)}

\* `group` holds the product p exactly when p has at least `threshold` cases
\* with the marker, and lists exactly those cases, each once
C23_Group(group, m, threshold, marker) ==
    \A p \in C18_ProductLabels :
        /\ p \in DOMAIN group <=> Cardinality(MarkedCases(m, p, marker)) >= threshold
        /\ p \in DOMAIN group =>
              /\ Len(group[p]) = Cardinality(MarkedCases(m, p, marker))
              /\ {group[p][i] : i \in 1..Len(group[p])} =
                    {repair_cases[k] : k \in MarkedCases(m, p, marker)}

\* C23: get_special_cases(month, threshold), threshold >= 1, holds a product in
\* the exchange (resp. complaint) group if and only if the number of the month's
\* cases of the product whose judgment type contains the exchange (resp.
\* complaint) marker is >= threshold, and lists those cases; a case whose
\* judgment type contains both markers is counted and listed in both groups.
C23_SpecialCases ==
    last_call # << >> =>
        /\ C23_Group(last_return.exchange, last_call[2], last_call[3], JUDGMENT_EXCHANGE)
        /\ C23_Group(last_return.complaint, last_call[2], last_call[3], JUDGMENT_COMPLAINT)
        /\ DOMAIN last_return.exchange \subseteq C18_ProductLabels
        /\ DOMAIN last_return.complaint \subseteq C18_ProductLabels

\* get_special_cases has returned, for the threshold 5, a product with exactly 5
\* exchange cases in both groups: all 5 hold the complaint marker too
C23_Witness ==
    /\ last_call # << >>
    /\ last_call[3] = SPECIAL_CASE_THRESHOLD
    /\ <<"a">> \in DOMAIN last_return.exchange
    /\ <<"a">> \in DOMAIN last_return.complaint
    /\ Len(last_return.exchange[<<"a">>]) = SPECIAL_CASE_THRESHOLD
    /\ last_return.complaint[<<"a">>] = last_return.exchange[<<"a">>]

-----------------------------------------------------------------------------
(* utils/korean_utils.py extract_keywords, core/learning.py                *)
(* get_similar_past_cases                                                  *)

MaxText == 4        \* longest action note of the one-case stores
SimilarCases == 7   \* cases of the wide stores: the asked case and 6 more
LIMIT_FACTOR == 5   \* LIMIT top_n * 5

KeywordChars == {"ga", "na", "a", " "}

KeywordTexts == UNION {[1..n -> KeywordChars] : n \in 0..MaxText}

RECURSIVE HangulRuns(_, _, _)
\* the maximal runs of characters of [U+AC00-U+D7A3] in text, left to right; `cur` is
\* the run being read
HangulRuns(text, cur, acc) ==
    LET closed == IF cur = << >> THEN acc ELSE Append(acc, cur)
    IN  IF text = << >> THEN closed
        ELSE IF Head(text) \in Hangul
        THEN HangulRuns(Tail(text), Append(cur, Head(text)), acc)
        ELSE HangulRuns(Tail(text), << >>, closed)

\* re.findall(r"[U+AC00-U+D7A3]{2,}", text): the quantifier is greedy, so each match is
\* a whole run, and a run of one syllable gives no match
findall_hangul(text) ==
    SelectSeq(HangulRuns(text, << >>, << >>), LAMBDA w : Len(w) >= 2)

RECURSIVE fromkeys(_, _)
\* list(dict.fromkeys(words)): first occurrences, in order
fromkeys(words, acc) ==
    IF words = << >> THEN acc
    ELSE fromkeys(Tail(words),
                  IF \E k \in 1..Len(acc) : acc[k] = Head(words) THEN acc
                  ELSE Append(acc, Head(words)))

\* extract_keywords(text, min_length): min_length is not read by the body
extract_keywords(text, min_length) ==
    IF text = << >> THEN << >> ELSE fromkeys(findall_hangul(text), << >>)

DEFAULT_MIN_LENGTH == 2

\* set(extract_keywords(text))
KeywordSet(text) ==
    LET kw == extract_keywords(text, DEFAULT_MIN_LENGTH)
    IN  {kw[k] : k \in 1..Len(kw)}

\* f"{r['action_notes'] or ''} {r['request_details'] or ''}"
PastText(r) == r.action_notes \o <<" ">> \o r.request_details

\* len(target_kw & past_kw)
Overlap(action, r) == Cardinality(KeywordSet(action) \cap KeywordSet(PastText(r)))

\* FROM case_tags ct JOIN repair_cases rc JOIN tag_dictionary td
\* WHERE ct.is_final = 1 AND rc.id != ? [AND rc.product_group = ?]; the row
\* keeps rc.id and rc.created_at, which the query orders by
SimilarCandidates(rc, ct, td, case_id, product) ==
    { [id |-> rc[k].id, tag_id |-> t.tag_id, created_at |-> rc[k].created_at,
       action_notes |-> rc[k].action_notes, request_details |-> rc[k].request_details,
       product_group |-> rc[k].product_group,
       standard_tag |-> td[t.tag_id].standard_tag] :
        <<k, t>> \in {kt \in (1..Len(rc)) \X ct :
                        /\ kt[2].case_id = rc[kt[1]].id
                        /\ kt[2].is_final
                        /\ kt[2].tag_id \in 1..Len(td)
                        /\ rc[kt[1]].id # case_id
                        /\ product # << >> => rc[kt[1]].product_group = product} }

\* ORDER BY rc.created_at DESC: among rows of one created_at the order is the
\* engine's; `tie` is the scan direction ("asc" or "desc" row ids)
Before(r1, r2, tie) ==
    IF r1.created_at # r2.created_at THEN r1.created_at > r2.created_at
    ELSE IF r1.id # r2.id
    THEN (IF tie = "asc" THEN r1.id < r2.id ELSE r1.id > r2.id)
    ELSE (IF tie = "asc" THEN r1.tag_id < r2.tag_id ELSE r1.tag_id > r2.tag_id)

RECURSIVE OrderByCreatedDesc(_, _)
OrderByCreatedDesc(rows, tie) ==
    IF rows = {} THEN << >>
    ELSE LET first == CHOOSE r \in rows : \A o \in rows \ {r} : Before(r, o, tie)
         IN  <<first>> \o OrderByCreatedDesc(rows \ {first}, tie)

\* LIMIT n
Limit(rows, n) == SubSeq(rows, 1, Min(n, Len(rows)))

RECURSIVE SortByOverlapDesc(_, _, _)
\* scored.sort(key=lambda x: x[0], reverse=True): stable, so entries of one
\* overlap keep the order of the query
SortByOverlapDesc(rows, action, o) ==
    IF o <= 0 THEN << >>
    ELSE SelectSeq(rows, LAMBDA r : Overlap(action, r) = o)
         \o SortByOverlapDesc(rows, action, o - 1)

\* the rows get_similar_past_cases picks, as fetched
SimilarRows_NoLimit(rc, ct, td, case, top_n, tie) ==
    LET action == case.action_notes
        rows == OrderByCreatedDesc(
                    SimilarCandidates(rc, ct, td, case.id, case.product_group), tie)
    IN  IF action = << >> THEN << >>
        ELSE Limit(SortByOverlapDesc(rows, action, Cardinality(KeywordSet(action))),
                   top_n)

SimilarRows(rc, ct, td, case, top_n, tie) ==
    LET action == case.action_notes
        rows == Limit(OrderByCreatedDesc(
                          SimilarCandidates(rc, ct, td, case.id, case.product_group), tie),
                      top_n * LIMIT_FACTOR)
    IN  IF action = << >> THEN << >>
        ELSE Limit(SortByOverlapDesc(rows, action, Cardinality(KeywordSet(action))),
                   top_n)

\* dict(r) of a fetched row: the four selected columns
RowDict(r) ==
    [action_notes |-> r.action_notes, request_details |-> r.request_details,
     product_group |-> r.product_group, standard_tag |-> r.standard_tag]

\* get_similar_past_cases(conn, case, top_n)
get_similar_past_cases(rc, ct, td, case, top_n, tie) ==
    LET rows == SimilarRows(rc, ct, td, case, top_n, tie)
    IN  [k \in 1..Len(rows) |-> RowDict(rows[k])]

LearningDictionary ==
    << [standard_tag |-> <<"a">>, is_active |-> TRUE],
       [standard_tag |-> <<"b">>, is_active |-> TRUE] >>

OneKeyword == <<"ga", "ga">>
TwoKeywords == <<"ga", "ga", " ", "na", "na">>

\* imported cases with their final and proposed tags: one case with any short
\* note; three cases imported in the same second or one after the other; a
\* wide store whose asked case (the newest) has two keywords
LearningStores ==
    { [rc |-> << [action_notes |-> t, request_details |-> << >>,
                  product_group |-> << >>, created_at |-> 1] >>,
       finals |-> << 0 >>] : t \in KeywordTexts }
    \cup
    { [rc |-> [k \in 1..3 |->
                 [action_notes |-> notes[k], request_details |-> IF k = 3 THEN details ELSE << >>,
                  product_group |-> product[k],
                  created_at |-> IF same_second THEN 1 ELSE k]],
       finals |-> finals] :
        notes \in [1..3 -> {OneKeyword, TwoKeywords}],
        details \in {<< >>, <<"na", "na">>},
        product \in [1..3 -> {<< >>, <<"a">>}],
        finals \in [1..3 -> 0..1] \cup {<<1, 1, 2>>},
        same_second \in BOOLEAN }
    \cup
    { [rc |-> [k \in 1..SimilarCases |->
                 [action_notes |-> IF k = SimilarCases THEN TwoKeywords ELSE notes[k],
                  request_details |-> << >>, product_group |-> <<"a">>,
                  created_at |-> k]],
       finals |-> [k \in 1..SimilarCases |-> 1]] :
        notes \in [1..(SimilarCases - 1) -> {OneKeyword, TwoKeywords, <<"a">>}] }

\* the store as the pages left it: a case has `finals[k]` confirmed tags (tags
\* 1..finals[k]); a case without confirmed tag has one pending AI proposal
InitLearning ==
    /\ tag_dictionary = LearningDictionary
    /\ tag_synonyms = << >>
    /\ BatchIdle
    /\ new_tag_candidates = << >>
    /\ tag_edit_history = << >>
    /\ run_pc = "idle"
    /\ run_untagged = << >>
    /\ rule_based_cases = {}
    /\ \E st \in LearningStores :
          /\ repair_cases = [k \in 1..Len(st.rc) |->
                                [id |-> CaseIdAt(k), action_notes |-> st.rc[k].action_notes,
                                 request_details |-> st.rc[k].request_details,
                                 product_group |-> st.rc[k].product_group,
                                 created_at |-> st.rc[k].created_at]]
          /\ case_tags =
                { CaseTagRow(CaseIdAt(k), t, "user_confirmed", 10000, << >>, TRUE) :
                    <<k, t>> \in {kt \in (1..Len(st.rc)) \X (1..2) : kt[2] <= st.finals[kt[1]]} }
                \cup
                { CaseTagRow(CaseIdAt(k), 1, "ai_proposed", 5000, <<"a">>, FALSE) :
                    k \in {j \in 2..Len(st.rc) : st.finals[j] = 0} }
    /\ matrix_month = 0
    /\ matrix_result = EmptyMatrix
    /\ trend_data = [months |-> << >>, by_product_month |-> << >>, by_tag_month |-> << >>]
    /\ anomalies_pc = "idle"
    /\ anomalies = << >>
    /\ CallIdle

MinLengths == 1..3
TopNs == 1..2

\* extract_keywords(text, min_length) on a case's action notes
ExtractKeywords(k, min_length) ==
    /\ last_call = << >>
    /\ k \in 1..Len(repair_cases)
    /\ last_call' = <<"extract_keywords", repair_cases[k].action_notes, min_length>>
    /\ last_return' = extract_keywords(repair_cases[k].action_notes, min_length)
    /\ UNCHANGED <<uploaded_files, dictVars, batchVars, tagVars, aggVars>>

\* get_similar_past_cases(conn, case, top_n) for a case of the store; `rows`
\* are the picked rows with their rc.id and created_at, `result` what the
\* function returns
GetSimilarPastCases(k, top_n) ==
    /\ last_call = << >>
    /\ k \in 1..Len(repair_cases)
    /\ last_call' = <<"get_similar_past_cases", k, top_n>>
    /\ \E tie \in {"asc", "desc"} :
          last_return' =
              [rows |-> SimilarRows(repair_cases, case_tags, tag_dictionary,
                                    repair_cases[k], top_n, tie),
               result |-> get_similar_past_cases(repair_cases, case_tags, tag_dictionary,
                                                 repair_cases[k], top_n, tie)]
    /\ UNCHANGED <<uploaded_files, dictVars, batchVars, tagVars, aggVars>>

NextLearning ==
    \/ \E k \in 1..SimilarCases, min_length \in MinLengths : ExtractKeywords(k, min_length)
    \/ \E k \in 1..SimilarCases, top_n \in TopNs : GetSimilarPastCases(k, top_n)

SpecLearning == InitLearning /\ [][NextLearning]_vars

-----------------------------------------------------------------------------
(* Properties of get_similar_past_cases and extract_keywords (SpecLearning) *)

\* the other cases that have a final tag (of the asked case's product group
\* when it has one)
FinalizedOthers(k) ==
    { j \in 1..Len(repair_cases) :
        /\ j # k
        /\ \E t \in case_tags : t.case_id = repair_cases[j].id /\ t.is_final
        /\ repair_cases[k].product_group # << >>
              => repair_cases[j].product_group = repair_cases[k].product_group }

C24_Candidates(k) ==
    { <<repair_cases[j].id, t.tag_id>> :
        <<j, t>> \in {jt \in FinalizedOthers(k) \X case_tags :
                        jt[2].case_id = repair_cases[jt[1]].id /\ jt[2].is_final} }

C24_CaseOf(c) == CHOOSE r \in {repair_cases[j] : j \in 1..Len(repair_cases)} : r.id = c[1]

\* a set of top_n * 5 most recent rows (all rows when there are fewer)
C24_IsWindow(w, k, top_n) ==
    /\ w \subseteq C24_Candidates(k)
    /\ Cardinality(w) = Min(top_n * LIMIT_FACTOR, Cardinality(C24_Candidates(k)))
    /\ \A c \in w, o \in C24_Candidates(k) \ w :
          C24_CaseOf(c).created_at >= C24_CaseOf(o).created_at

C25_IsRun(text, i, j) ==
    /\ i <= j
    /\ \A p \in i..j : text[p] \in Hangul
    /\ i = 1 \/ text[i - 1] \notin Hangul
    /\ j = Len(text) \/ text[j + 1] \notin Hangul

\* the first positions of the runs of at least min_length syllables that are
\* not a repetition of an earlier such run
C25_FirstRuns(text, min_length) ==
    { i \in 1..Len(text) :
        \E j \in i..Len(text) :
            /\ C25_IsRun(text, i, j)
            /\ j - i + 1 >= min_length
            /\ ~\E i0 \in 1..(i - 1) :
                  C25_IsRun(text, i0, i0 + j - i) /\ SubSeq(text, i0, i0 + j - i) = SubSeq(text, i, j) }

\* C25: extract_keywords(text, min_length) returns exactly the maximal runs of
\* Hangul syllables of at least min_length syllables, each once, in order of
\* first occurrence, for every min_length
C25_KeywordsByMinLength ==
    (last_call # << >> /\ last_call[1] = "extract_keywords") =>
        LET text == last_call[2]
            first == C25_FirstRuns(text, last_call[3])
        IN  /\ Len(last_return) = Cardinality(first)
            /\ \A n \in 1..Len(last_return) :
                  \E i \in first :
                      /\ Cardinality({i0 \in first : i0 < i}) = n - 1
                      /\ i + Len(last_return[n]) - 1 <= Len(text)
                      /\ C25_IsRun(text, i, i + Len(last_return[n]) - 1)
                      /\ last_return[n] = SubSeq(text, i, i + Len(last_return[n]) - 1)

=============================================================================
